---- MODULE Spec2Model ----
(***************************************************************************)
(* A model of ultimate_rprint.py: a facade of helper functions that write  *)
(* styled text, panels and tables to one terminal output stream, plus a    *)
(* prompt adapter that reads lines from the human.                         *)
(*                                                                         *)
(* Text is a sequence of tokens.  A token is a one-character string of     *)
(* caller text, or a literal chunk of an f-string of the source (a markup  *)
(* tag such as "[red]", a glyph, a fixed notice).  Concatenation of Python *)
(* strings is concatenation of token sequences, and slicing is applied to  *)
(* caller text only, whose tokens are single characters.                   *)
(*                                                                         *)
(* A Python function is an operator from its arguments to an effect: the   *)
(* writes it appends to the output stream, the functions of the module it  *)
(* entered (in call order), and the exception that escapes it, if any.     *)
(***************************************************************************)
EXTENDS Integers, Sequences, FiniteSets, TLC

VARIABLES
    out,     \* the terminal output stream: every write so far, in order
    log,     \* the caller's top-level calls so far, in invocation order: each
             \* with its arguments (call), the functions of the module it
             \* entered (calls), what it wrote (writes), the exception that
             \* escaped it (raised, or "none") and what it returned (ret)
    pc,      \* "idle", or "prompt" while the last call blocks on the human
    asking,  \* the arguments of the last Prompt.ask
    typed,   \* lines the human has supplied to the last Prompt.ask
    run,     \* the test script that runs, if one does: which script, the
             \* function it was entered by, its status, its call stack and
             \* the functions of the script it has entered
    timer    \* the frame of the rprint_countdown that runs, if one does: the
             \* values its for loop has yet to take (rest) and the statement
             \* it is at ("for", "sleep", or "none" when none runs)

vars == <<out, log, pc, asking, typed, run, timer>>

\* Longest sequence of top-level calls the model follows.
MaxCalls == 3

-----------------------------------------------------------------------------
(* Effects *)

\* The effect of a statement sequence that did nothing.
Skip == [writes |-> <<>>, calls |-> <<>>, raised |-> "none"]

\* rich.print(x): one write of the renderable x to the output stream.
rprint(x) == [writes |-> <<x>>, calls |-> <<>>, raised |-> "none"]

\* An exception raised at this point.
Raise(exc) == [writes |-> <<>>, calls |-> <<>>, raised |-> exc]

\* Statement e1 followed by statement e2: e2 runs only if e1 raised nothing.
Then(e1, e2) ==
    IF e1.raised # "none" THEN e1
    ELSE [writes |-> e1.writes \o e2.writes,
          calls  |-> e1.calls \o e2.calls,
          raised |-> e2.raised]

\* Entering function fname of the module, whose body has effect e.
Enter(fname, e) == [e EXCEPT !.calls = <<fname>> \o @]

\* A markup string handed to rich.print.
Markup(tokens) == [kind |-> "text", arg |-> tokens]

-----------------------------------------------------------------------------
(* Basic message types.  The glyphs of the source are written in ASCII:    *)
(* "(i)" for U+2139, "(v)" for U+2713, "(!)" for U+26A0, "(x)" for U+2717, *)
(* "(>)" for U+25B6; "[debug]" is the source's own literal.                *)

rprint_info(message) ==
    Enter("rprint_info",
          rprint(Markup(<<"[blue]", "(i)", " ">> \o message \o <<"[/blue]">>)))

rprint_success(message) ==
    Enter("rprint_success",
          rprint(Markup(<<"[green]", "(v)", " ">> \o message \o <<"[/green]">>)))

rprint_warning(message) ==
    Enter("rprint_warning",
          rprint(Markup(<<"[yellow]", "(!)", " ">> \o message \o <<"[/yellow]">>)))

\* rprint_error with a style that depends on what was written before.
rprint_error_restyled(message) ==
    Enter("rprint_error",
          rprint(Markup(<<IF out = <<>> THEN "[red]" ELSE "[yellow]", "(x)", " ">>
                        \o message \o <<"[/red]">>)))

rprint_error(message) ==
    Enter("rprint_error",
          rprint(Markup(<<"[red]", "(x)", " ">> \o message \o <<"[/red]">>)))

rprint_debug(message) ==
    Enter("rprint_debug",
          rprint(Markup(<<"[magenta]", "[debug]", " ">> \o message \o <<"[/magenta]">>)))

rprint_progress_msg(message) ==
    Enter("rprint_progress_msg",
          rprint(Markup(<<"[cyan]", "(>)", " ">> \o message \o <<"[/cyan]">>)))

\* The six semantic categories.
Levels == {"info", "success", "warning", "error", "debug", "progress"}

\* Calling the module-level function bound to name with one message.
CallHelper(name, message) ==
    CASE name = "rprint_info"         -> rprint_info(message)
      [] name = "rprint_success"      -> rprint_success(message)
      [] name = "rprint_warning"      -> rprint_warning(message)
      [] name = "rprint_error"        -> rprint_error(message)
      [] name = "rprint_debug"        -> rprint_debug(message)
      [] name = "rprint_progress_msg" -> rprint_progress_msg(message)

-----------------------------------------------------------------------------
(* Python built-ins *)

Min(a, b) == IF a <= b THEN a ELSE b
Max(a, b) == IF a >= b THEN a ELSE b

\* The characters of a string literal.
Chars(s) == [i \in 1..Len(s) |-> SubSeq(s, i, i)]

\* s[:n], with Python's clamping and its negative indices.
SliceTo(s, n) ==
    IF n >= 0 THEN SubSeq(s, 1, Min(n, Len(s)))
    ELSE SubSeq(s, 1, Max(0, Len(s) + n))

-----------------------------------------------------------------------------
(* Python values *)

\* The values a caller passes: str (a sequence of characters), int, None,
\* bool, bytes, list (a sequence of values) and dict (its items in insertion
\* order, the keys distinct).
PyStr(chars) == [type |-> "str", chars |-> chars]
PyInt(n)     == [type |-> "int", n |-> n]
PyNone       == [type |-> "NoneType"]
PyBool(b)    == [type |-> "bool", b |-> b]
PyBytes(bs)  == [type |-> "bytes", chars |-> bs]
PyList(xs)   == [type |-> "list", items |-> xs]
PyDict(kvs)  == [type |-> "dict", items |-> kvs]

\* One item of a dict.
Item(k, v) == [k |-> k, v |-> v]

\* len(x) of a str, list or dict.
PyLen(x) == IF x.type = "str" THEN Len(x.chars) ELSE Len(x.items)

\* list(d.keys()): the keys in insertion order.
Keys(d) == [i \in 1..Len(d.items) |-> d.items[i].k]

\* d.get(key, default)
DictGet(d, key, default) ==
    IF \E i \in 1..Len(d.items) : d.items[i].k = key
    THEN d.items[CHOOSE i \in 1..Len(d.items) : d.items[i].k = key].v
    ELSE default

Digits == <<"0", "1", "2", "3", "4", "5", "6", "7", "8", "9">>
IsDigit(c) == \E d \in 1..10 : Digits[d] = c
DigitVal(c) == (CHOOSE d \in 1..10 : Digits[d] = c) - 1

\* str(n) of an int.
RECURSIVE IntStr(_)
IntStr(n) ==
    IF n < 0 THEN <<"-">> \o IntStr(-n)
    ELSE IF n < 10 THEN <<Digits[n + 1]>>
    ELSE IntStr(n \div 10) \o <<Digits[(n % 10) + 1]>>

\* The strings of xs joined by sep.
RECURSIVE Join(_, _)
Join(xs, sep) ==
    IF xs = <<>> THEN <<>>
    ELSE IF Len(xs) = 1 THEN xs[1]
    ELSE xs[1] \o sep \o Join(Tail(xs), sep)

\* repr(x): a str in quotes, containers with their elements' repr.  The
\* texts of the model hold no quote or backslash, so nothing is escaped.
RECURSIVE Repr(_)
Repr(x) ==
    CASE x.type = "str"      -> <<"'">> \o x.chars \o <<"'">>
      [] x.type = "int"      -> IntStr(x.n)
      [] x.type = "NoneType" -> <<"N", "o", "n", "e">>
      [] x.type = "bool"     -> IF x.b THEN <<"T", "r", "u", "e">>
                                ELSE <<"F", "a", "l", "s", "e">>
      [] x.type = "bytes"    -> <<"b", "'">> \o x.chars \o <<"'">>
      [] x.type = "list"     ->
            <<"[">> \o Join([i \in 1..Len(x.items) |-> Repr(x.items[i])],
                            <<",", " ">>) \o <<"]">>
      [] x.type = "dict"     ->
            <<"{">> \o Join([i \in 1..Len(x.items) |->
                                <<"'">> \o x.items[i].k \o <<"'", ":", " ">>
                                \o Repr(x.items[i].v)],
                            <<",", " ">>) \o <<"}">>

\* str(x): a str is itself, anything else its repr.
Str(x) == IF x.type = "str" THEN x.chars ELSE Repr(x)

Lowers == <<"a", "b", "c", "d", "e", "f", "g", "h", "i", "j", "k", "l", "m",
            "n", "o", "p", "q", "r", "s", "t", "u", "v", "w", "x", "y", "z">>
Uppers == <<"A", "B", "C", "D", "E", "F", "G", "H", "I", "J", "K", "L", "M",
            "N", "O", "P", "Q", "R", "S", "T", "U", "V", "W", "X", "Y", "Z">>

IsLower(c) == \E i \in 1..26 : Lowers[i] = c
IsUpper(c) == \E i \in 1..26 : Uppers[i] = c
IsCased(c) == IsLower(c) \/ IsUpper(c)
ToUpper(c) == IF IsLower(c) THEN Uppers[CHOOSE i \in 1..26 : Lowers[i] = c] ELSE c
ToLower(c) == IF IsUpper(c) THEN Lowers[CHOOSE i \in 1..26 : Uppers[i] = c] ELSE c

\* s.replace(old, new) for single characters old and new.
Replace(s, old, new) == [i \in 1..Len(s) |-> IF s[i] = old THEN new ELSE s[i]]

\* s.title(): a cased character is upper case when it follows an uncased
\* one (or starts the string) and lower case when it follows a cased one.
Title(s) ==
    [i \in 1..Len(s) |->
        IF i > 1 /\ IsCased(s[i - 1]) THEN ToLower(s[i]) ELSE ToUpper(s[i])]

\* The formatting without the replacement of "_".
FormatKey_title_only(key) == Title(key)

\* key.replace('_', ' ').title()
FormatKey(key) == Title(Replace(key, "_", " "))

-----------------------------------------------------------------------------
(* Enhanced data display: tables *)

\* Width a table cell is cut to.
CellWidth == 50

\* Default of rprint_table's max_rows.
DefaultMaxRows == 10

\* A rich Table with its title, its columns (header and style), its rows of
\* cells and its caption (None unless set).
Table(title, columns, rows, caption) ==
    [kind |-> "table", title |-> title, box |-> "ROUNDED",
     columns |-> columns, rows |-> rows, caption |-> caption]

\* rprint_table without its test for empty data: data[0] raises IndexError.
rprint_table_unguarded(data, title, max_rows) ==
    Enter("rprint_table",
          IF PyLen(data) = 0
          THEN Raise("IndexError")
          ELSE LET first_row == data.items[1]
                   keys      == Keys(first_row)
                   shown     == SliceTo(data.items, max_rows)
               IN  rprint(Table(
                       <<"[bold blue]">> \o title \o <<"[/bold blue]">>,
                       [c \in 1..Len(keys) |->
                           [header |-> FormatKey(keys[c]), style |-> "cyan"]],
                       [r \in 1..Len(shown) |->
                           [c \in 1..Len(keys) |->
                               SliceTo(Str(DictGet(shown[r], keys[c], PyStr(<<>>))),
                                       CellWidth)]],
                       IF PyLen(data) > max_rows
                       THEN PyStr(<<"Showing ">> \o IntStr(max_rows) \o <<" of ">>
                                  \o IntStr(PyLen(data)) \o <<" rows">>)
                       ELSE PyNone)))

\* rprint_table that sets the caption from one row short of the cap.
rprint_table_late_caption(data, title, max_rows) ==
    Enter("rprint_table",
          IF PyLen(data) = 0
          THEN rprint_warning(<<"No data for table">>)
          ELSE LET first_row == data.items[1]
                   keys      == Keys(first_row)
                   shown     == SliceTo(data.items, max_rows)
               IN  rprint(Table(
                       <<"[bold blue]">> \o title \o <<"[/bold blue]">>,
                       [c \in 1..Len(keys) |->
                           [header |-> FormatKey(keys[c]), style |-> "cyan"]],
                       [r \in 1..Len(shown) |->
                           [c \in 1..Len(keys) |->
                               SliceTo(Str(DictGet(shown[r], keys[c], PyStr(<<>>))),
                                       CellWidth)]],
                       IF PyLen(data) > max_rows + 1
                       THEN PyStr(<<"Showing ">> \o IntStr(max_rows) \o <<" of ">>
                                  \o IntStr(PyLen(data)) \o <<" rows">>)
                       ELSE PyNone)))

\* rprint_table that makes the cells of a row from the row's own values.
rprint_table_own_values(data, title, max_rows) ==
    Enter("rprint_table",
          IF PyLen(data) = 0
          THEN rprint_warning(<<"No data for table">>)
          ELSE LET first_row == data.items[1]
                   keys      == Keys(first_row)
                   shown     == SliceTo(data.items, max_rows)
               IN  rprint(Table(
                       <<"[bold blue]">> \o title \o <<"[/bold blue]">>,
                       [c \in 1..Len(keys) |->
                           [header |-> FormatKey(keys[c]), style |-> "cyan"]],
                       [r \in 1..Len(shown) |->
                           [c \in 1..PyLen(shown[r]) |->
                               SliceTo(Str(shown[r].items[c].v), CellWidth)]],
                       IF PyLen(data) > max_rows
                       THEN PyStr(<<"Showing ">> \o IntStr(max_rows) \o <<" of ">>
                                  \o IntStr(PyLen(data)) \o <<" rows">>)
                       ELSE PyNone)))

\* rprint_table(data, title, max_rows): a warning when data is empty;
\* otherwise one column per key of the first row, one row of str(...)[:50]
\* cells per element of data[:max_rows], and a caption when rows were cut.
rprint_table(data, title, max_rows) ==
    Enter("rprint_table",
          IF PyLen(data) = 0
          THEN rprint_warning(<<"No data for table">>)
          ELSE LET first_row == data.items[1]
                   keys      == Keys(first_row)
                   shown     == SliceTo(data.items, max_rows)
               IN  rprint(Table(
                       <<"[bold blue]">> \o title \o <<"[/bold blue]">>,
                       [c \in 1..Len(keys) |->
                           [header |-> FormatKey(keys[c]), style |-> "cyan"]],
                       [r \in 1..Len(shown) |->
                           [c \in 1..Len(keys) |->
                               SliceTo(Str(DictGet(shown[r], keys[c], PyStr(<<>>))),
                                       CellWidth)]],
                       IF PyLen(data) > max_rows
                       THEN PyStr(<<"Showing ">> \o IntStr(max_rows) \o <<" of ">>
                                  \o IntStr(PyLen(data)) \o <<" rows">>)
                       ELSE PyNone)))

-----------------------------------------------------------------------------
(* Enhanced data display: trees *)

\* Most items shown under a branch, and the width an item is cut to.
TreeItemLimit == 5
TreeItemWidth == 60

\* A rich Tree: its label and its branches, each with a label and leaves.
Tree(label, branches) == [kind |-> "tree", label |-> label, branches |-> branches]

\* rprint_tree with a label that counts the items shown.
rprint_tree_counting_shown(data, title) ==
    Enter("rprint_tree",
          rprint(Tree(
              <<"[bold blue]">> \o title \o <<"[/bold blue]">>,
              [b \in 1..PyLen(data) |->
                  LET key   == data.items[b].k
                      shown == SliceTo(data.items[b].v.items, TreeItemLimit)
                  IN  [label  |-> <<"[green]">> \o key \o <<"[/green]", " (">>
                                  \o IntStr(Len(shown)) \o <<" items)">>,
                       leaves |-> [j \in 1..Len(shown) |->
                                      <<"[dim]">> \o SliceTo(Str(shown[j]), TreeItemWidth)
                                      \o (IF Len(Str(shown[j])) > TreeItemWidth
                                          THEN <<"...">> ELSE <<>>)
                                      \o <<"[/dim]">>]]])))

\* rprint_tree(data, title): one branch per item of the dict, labelled with
\* the key and len(items), over the first five items, each cut to 60
\* characters with "..." after it when it was longer.
rprint_tree(data, title) ==
    Enter("rprint_tree",
          rprint(Tree(
              <<"[bold blue]">> \o title \o <<"[/bold blue]">>,
              [b \in 1..PyLen(data) |->
                  LET key   == data.items[b].k
                      items == data.items[b].v.items
                      shown == SliceTo(items, TreeItemLimit)
                  IN  [label  |-> <<"[green]">> \o key \o <<"[/green]", " (">>
                                  \o IntStr(Len(items)) \o <<" items)">>,
                       leaves |-> [j \in 1..Len(shown) |->
                                      LET item_text ==
                                              SliceTo(Str(shown[j]), TreeItemWidth)
                                              \o (IF Len(Str(shown[j])) > TreeItemWidth
                                                  THEN <<"...">> ELSE <<>>)
                                      IN  <<"[dim]">> \o item_text \o <<"[/dim]">>]]])))

-----------------------------------------------------------------------------
(* Enhanced data display: panels *)

\* A rich Panel around body.
Panel(body, title, border_style) ==
    [kind |-> "panel", body |-> body, title |-> title,
     border_style |-> border_style]

Whitespace == {" ", "\n", "\t", "\r"}

\* s.rstrip() and s.strip()
RECURSIVE RStrip(_)
RStrip(s) ==
    IF s # <<>> /\ s[Len(s)] \in Whitespace THEN RStrip(SubSeq(s, 1, Len(s) - 1))
    ELSE s
RECURSIVE LStrip(_)
LStrip(s) == IF s # <<>> /\ s[1] \in Whitespace THEN LStrip(Tail(s)) ELSE s
Strip(s) == LStrip(RStrip(s))

\* The concatenation of the strings of xs.
Concat(xs) == Join(xs, <<>>)

\* rprint_key_value(data, title): one "Key: value" line per item, in a panel.
rprint_key_value(data, title) ==
    Enter("rprint_key_value",
          LET content ==
                  Concat([i \in 1..Len(data.items) |->
                      <<"[cyan]">> \o FormatKey(data.items[i].k)
                      \o <<":[/cyan] [white]">> \o Str(data.items[i].v)
                      \o <<"[/white]", "\n">>])
          IN  rprint(Panel(RStrip(content),
                           <<"[bold blue]">> \o title \o <<"[/bold blue]">>,
                           "blue")))

\* rprint_list that counts its items from 0.
rprint_list_from_zero(items, title, numbered) ==
    Enter("rprint_list",
          LET content ==
                  Concat([i \in 1..Len(items) |->
                      <<"[cyan]">>
                      \o (IF numbered THEN IntStr(i - 1) \o <<".", " ">>
                          ELSE <<"(.)", " ">>)
                      \o <<"[/cyan][white]">> \o items[i] \o <<"[/white]", "\n">>])
          IN  rprint(Panel(RStrip(content),
                           <<"[bold blue]">> \o title \o <<"[/bold blue]">>,
                           "blue")))

\* rprint_list(items, title, numbered): one line per item, prefixed "i. " or
\* with a bullet (U+2022, written "(.)" here), in a panel.
rprint_list(items, title, numbered) ==
    Enter("rprint_list",
          LET content ==
                  Concat([i \in 1..Len(items) |->
                      <<"[cyan]">>
                      \o (IF numbered THEN IntStr(i) \o <<".", " ">>
                          ELSE <<"(.)", " ">>)
                      \o <<"[/cyan][white]">> \o items[i] \o <<"[/white]", "\n">>])
          IN  rprint(Panel(RStrip(content),
                           <<"[bold blue]">> \o title \o <<"[/bold blue]">>,
                           "blue")))

-----------------------------------------------------------------------------
(* json.loads, on texts without backslash, '.', exponent or NaN/Infinity *)

JsonWhitespace == {" ", "\t", "\n", "\r"}

\* The first position from i on that holds no JSON whitespace.
RECURSIVE SkipWs(_, _)
SkipWs(s, i) ==
    IF i <= Len(s) /\ s[i] \in JsonWhitespace THEN SkipWs(s, i + 1) ELSE i

\* A failed scan, and a scan that read val and stopped before position next.
Fail == [ok |-> FALSE]
Ok(val, next) == [ok |-> TRUE, val |-> val, next |-> next]

\* s holds the characters of lit from position i.
Has(s, i, lit) ==
    i + Len(lit) - 1 <= Len(s) /\ SubSeq(s, i, i + Len(lit) - 1) = lit

\* A string from its opening quote at i: up to the next quote, with no
\* control character inside (the decoder is strict).
ScanString(s, i) ==
    IF i > Len(s) \/ s[i] # "\"" THEN Fail
    ELSE IF \A j \in (i + 1)..Len(s) : s[j] # "\"" THEN Fail
    ELSE LET j == CHOOSE j \in (i + 1)..Len(s) :
                      s[j] = "\"" /\ \A k \in (i + 1)..(j - 1) : s[k] # "\""
             body == SubSeq(s, i + 1, j - 1)
         IN  IF \E k \in 1..Len(body) : body[k] \in {"\n", "\t", "\r"} THEN Fail
             ELSE Ok(PyStr(body), j + 1)

\* The end of the run of digits that starts at i.
RECURSIVE DigitsEnd(_, _)
DigitsEnd(s, i) == IF i <= Len(s) /\ IsDigit(s[i]) THEN DigitsEnd(s, i + 1) ELSE i

\* The value of the digits s[i..j-1].
RECURSIVE DigitsVal(_, _, _)
DigitsVal(s, i, j) ==
    IF i >= j THEN 0 ELSE 10 * DigitsVal(s, i, j - 1) + DigitVal(s[j - 1])

\* An integer at i: -?(0|[1-9][0-9]*)
ScanInt(s, i) ==
    LET neg == i <= Len(s) /\ s[i] = "-"
        d   == IF neg THEN i + 1 ELSE i
    IN  IF d > Len(s) \/ ~IsDigit(s[d]) THEN Fail
        ELSE LET e == IF s[d] = "0" THEN d + 1 ELSE DigitsEnd(s, d)
                 v == DigitsVal(s, d, e)
             IN  Ok(PyInt(IF neg THEN 0 - v ELSE v), e)

\* d[key] = value on the items of a dict: a repeated key keeps its place.
DictSet(items, key, value) ==
    IF \E i \in 1..Len(items) : items[i].k = key
    THEN [i \in 1..Len(items) |->
             IF items[i].k = key THEN Item(key, value) ELSE items[i]]
    ELSE Append(items, Item(key, value))

RECURSIVE ScanValue(_, _)
RECURSIVE ScanMembers(_, _, _)
RECURSIVE ScanElements(_, _, _)

\* A JSON value at i (whitespace already skipped).
ScanValue(s, i) ==
    IF i > Len(s) THEN Fail
    ELSE CASE s[i] = "\"" -> ScanString(s, i)
           [] s[i] = "{" ->
                LET j == SkipWs(s, i + 1)
                IN  IF j <= Len(s) /\ s[j] = "}" THEN Ok(PyDict(<<>>), j + 1)
                    ELSE ScanMembers(s, j, <<>>)
           [] s[i] = "[" ->
                LET j == SkipWs(s, i + 1)
                IN  IF j <= Len(s) /\ s[j] = "]" THEN Ok(PyList(<<>>), j + 1)
                    ELSE ScanElements(s, j, <<>>)
           [] s[i] = "-" \/ IsDigit(s[i]) -> ScanInt(s, i)
           [] s[i] = "n" ->
                IF Has(s, i, <<"n", "u", "l", "l">>) THEN Ok(PyNone, i + 4) ELSE Fail
           [] s[i] = "t" ->
                IF Has(s, i, <<"t", "r", "u", "e">>) THEN Ok(PyBool(TRUE), i + 4)
                ELSE Fail
           [] s[i] = "f" ->
                IF Has(s, i, <<"f", "a", "l", "s", "e">>) THEN Ok(PyBool(FALSE), i + 5)
                ELSE Fail
           [] OTHER -> Fail

\* The members of an object from the key at i, after the items acc.
ScanMembers(s, i, acc) ==
    LET k == ScanString(s, i)
    IN  IF ~k.ok THEN Fail
        ELSE LET c == SkipWs(s, k.next)
             IN  IF c > Len(s) \/ s[c] # ":" THEN Fail
                 ELSE LET v == ScanValue(s, SkipWs(s, c + 1))
                      IN  IF ~v.ok THEN Fail
                          ELSE LET e    == SkipWs(s, v.next)
                                   acc2 == DictSet(acc, k.val.chars, v.val)
                               IN  IF e > Len(s) THEN Fail
                                   ELSE IF s[e] = "}" THEN Ok(PyDict(acc2), e + 1)
                                   ELSE IF s[e] = ","
                                        THEN ScanMembers(s, SkipWs(s, e + 1), acc2)
                                   ELSE Fail

\* The elements of an array from the value at i, after the elements acc.
ScanElements(s, i, acc) ==
    LET v == ScanValue(s, i)
    IN  IF ~v.ok THEN Fail
        ELSE LET e    == SkipWs(s, v.next)
                 acc2 == Append(acc, v.val)
             IN  IF e > Len(s) THEN Fail
                 ELSE IF s[e] = "]" THEN Ok(PyList(acc2), e + 1)
                 ELSE IF s[e] = "," THEN ScanElements(s, SkipWs(s, e + 1), acc2)
                 ELSE Fail

\* json.loads(s): one value between optional whitespace, and nothing after;
\* not ok stands for json.JSONDecodeError.
json_loads(s) ==
    LET r == ScanValue(s, SkipWs(s, 1))
    IN  IF r.ok /\ SkipWs(s, r.next) = Len(s) + 1 THEN [ok |-> TRUE, val |-> r.val]
        ELSE Fail

\* json.dumps accepts x: no bytes in it (dict keys are str here).
RECURSIVE JsonSerializable(_)
JsonSerializable(x) ==
    CASE x.type = "bytes" -> FALSE
      [] x.type = "list"  -> \A i \in 1..Len(x.items) : JsonSerializable(x.items[i])
      [] x.type = "dict"  -> \A i \in 1..Len(x.items) : JsonSerializable(x.items[i].v)
      [] OTHER -> TRUE

-----------------------------------------------------------------------------
(* Enhanced data display: JSON *)

\* Panel(JSON.from_data(data), ...): JSON.from_data dumps the data, which
\* raises TypeError on a value json cannot serialise.
JsonPanel(data, title) ==
    IF ~JsonSerializable(data) THEN Raise("TypeError")
    ELSE rprint(Panel([kind |-> "json", data |-> data],
                      <<"[bold cyan]">> \o title \o <<"[/bold cyan]">>, "cyan"))

\* rprint_json(data, title): a str is parsed first, and a str that does not
\* parse gets a red notice instead of the panel.
rprint_json(data, title) ==
    Enter("rprint_json",
          IF data.type = "str"
          THEN LET parsed == json_loads(data.chars)
               IN  IF ~parsed.ok
                   THEN rprint(Markup(<<"[red]", "Invalid JSON string", "[/red]">>))
                   ELSE JsonPanel(parsed.val, title)
          ELSE JsonPanel(data, title))

-----------------------------------------------------------------------------
(* Universal display function *)

\* Number of items from which a dict is shown as JSON.
SmallDictLimit == 10

\* rprint_display_any that sends a dict of SmallDictLimit items to the
\* key-value display.
rprint_display_any_inclusive(data, title) ==
    Enter("rprint_display_any",
          IF data.type = "dict"
          THEN IF PyLen(data) <= SmallDictLimit THEN rprint_key_value(data, title)
               ELSE rprint_json(data, title)
          ELSE IF data.type = "list"
          THEN IF \A i \in 1..Len(data.items) : data.items[i].type = "dict"
               THEN rprint_table(data, title, DefaultMaxRows)
               ELSE rprint_list([i \in 1..Len(data.items) |-> Str(data.items[i])],
                                title, TRUE)
          ELSE IF data.type = "str" /\ Has(Strip(data.chars), 1, <<"{">>)
          THEN rprint_json(data, title)
          ELSE rprint_info(title \o <<": ">> \o Str(data)))

\* rprint_display_any that parses a JSON str itself and displays the parsed
\* dict by its size.
rprint_display_any_reparsed(data, title) ==
    Enter("rprint_display_any",
          IF data.type = "dict"
          THEN IF PyLen(data) < SmallDictLimit THEN rprint_key_value(data, title)
               ELSE rprint_json(data, title)
          ELSE IF data.type = "list"
          THEN IF \A i \in 1..Len(data.items) : data.items[i].type = "dict"
               THEN rprint_table(data, title, DefaultMaxRows)
               ELSE rprint_list([i \in 1..Len(data.items) |-> Str(data.items[i])],
                                title, TRUE)
          ELSE IF data.type = "str" /\ Has(Strip(data.chars), 1, <<"{">>)
          THEN LET parsed == json_loads(data.chars)
               IN  IF parsed.ok /\ parsed.val.type = "dict"
                      /\ PyLen(parsed.val) < SmallDictLimit
                   THEN rprint_key_value(parsed.val, title)
                   ELSE rprint_json(data, title)
          ELSE rprint_info(title \o <<": ">> \o Str(data)))

\* rprint_display_any whose fallback line leaves the title out.
rprint_display_any_untitled(data, title) ==
    Enter("rprint_display_any",
          IF data.type = "dict"
          THEN IF PyLen(data) < SmallDictLimit THEN rprint_key_value(data, title)
               ELSE rprint_json(data, title)
          ELSE IF data.type = "list"
          THEN IF \A i \in 1..Len(data.items) : data.items[i].type = "dict"
               THEN rprint_table(data, title, DefaultMaxRows)
               ELSE rprint_list([i \in 1..Len(data.items) |-> Str(data.items[i])],
                                title, TRUE)
          ELSE IF data.type = "str" /\ Has(Strip(data.chars), 1, <<"{">>)
          THEN rprint_json(data, title)
          ELSE rprint_info(Str(data)))

\* rprint_display_any(data, title): the display is chosen by the type of
\* data, the first test that matches.
rprint_display_any(data, title) ==
    Enter("rprint_display_any",
          IF data.type = "dict"
          THEN IF PyLen(data) < SmallDictLimit THEN rprint_key_value(data, title)
               ELSE rprint_json(data, title)
          ELSE IF data.type = "list"
          THEN IF \A i \in 1..Len(data.items) : data.items[i].type = "dict"
               THEN rprint_table(data, title, DefaultMaxRows)
               ELSE rprint_list([i \in 1..Len(data.items) |-> Str(data.items[i])],
                                title, TRUE)
          ELSE IF data.type = "str" /\ Has(Strip(data.chars), 1, <<"{">>)
          THEN rprint_json(data, title)
          ELSE rprint_info(title \o <<": ">> \o Str(data)))

-----------------------------------------------------------------------------
(* What a renderer leaves of the object it was given.  Python passes the   *)
(* caller's object itself: a method that changes it changes it for the      *)
(* caller, while an assignment to the parameter name rebinds the local name *)
(* only.                                                                    *)

\* d after d.get(key, default): get never inserts the key.
AfterGet(d, key, default) == d

\* d after d.setdefault(key, default): a missing key is inserted.
AfterSetDefault(d, key, default) ==
    IF \E i \in 1..Len(d.items) : d.items[i].k = key THEN d
    ELSE PyDict(Append(d.items, Item(key, default)))

\* row after [str(row.get(key, ""))[:50] for key in keys]
RECURSIVE AfterGets(_, _)
AfterGets(row, keys) ==
    IF keys = <<>> THEN row
    ELSE AfterGets(AfterGet(row, Head(keys), PyStr(<<>>)), Tail(keys))

\* The same with setdefault in the place of get.
RECURSIVE AfterSetDefaults(_, _)
AfterSetDefaults(row, keys) ==
    IF keys = <<>> THEN row
    ELSE AfterSetDefaults(AfterSetDefault(row, Head(keys), PyStr(<<>>)), Tail(keys))

\* data after an rprint_table that fills its cells with row.setdefault.
rprint_table_data_setdefault(data, max_rows) ==
    IF PyLen(data) = 0 THEN data
    ELSE LET keys == Keys(data.items[1])
             n    == Len(SliceTo(data.items, max_rows))
         IN  PyList([r \in 1..PyLen(data) |->
                        IF r <= n THEN AfterSetDefaults(data.items[r], keys)
                        ELSE data.items[r]])

\* data after rprint_table(data, title, max_rows): the truth test, data[0],
\* keys() and len() read; data[:max_rows] is a new list of the same row
\* objects, and each of those rows is read with get.
rprint_table_data(data, max_rows) ==
    IF PyLen(data) = 0 THEN data
    ELSE LET keys == Keys(data.items[1])
             n    == Len(SliceTo(data.items, max_rows))
         IN  PyList([r \in 1..PyLen(data) |->
                        IF r <= n THEN AfterGets(data.items[r], keys)
                        ELSE data.items[r]])

\* The names of a call of rprint_json at its return: the caller's object,
\* and the local name data, which "data = json.loads(data)" rebinds to the
\* parsed value.
rprint_json_names(data) ==
    IF data.type = "str" /\ json_loads(data.chars).ok
    THEN [caller |-> data, data |-> json_loads(data.chars).val]
    ELSE [caller |-> data, data |-> data]

\* data after rprint_json(data, title): json.loads and JSON.from_data read.
rprint_json_data(data) == rprint_json_names(data).caller

\* data after rprint_key_value(data, title): items() and the f-string read.
rprint_key_value_data(data) == data

\* items after rprint_list(items, title, numbered): enumerate reads.
rprint_list_data(items) == items

\* data after rprint_tree(data, title): items() and len() read, items[:5] is
\* a new list, and str(item) reads.
rprint_tree_data(data) == data

\* data after rprint_display_any(data, title): what the renderer it chose
\* leaves of it; rprint_list is given a new list of the elements' str().
rprint_display_any_data(data) ==
    IF data.type = "dict"
    THEN IF PyLen(data) < SmallDictLimit THEN rprint_key_value_data(data)
         ELSE rprint_json_data(data)
    ELSE IF data.type = "list"
    THEN IF \A i \in 1..Len(data.items) : data.items[i].type = "dict"
         THEN rprint_table_data(data, DefaultMaxRows)
         ELSE data
    ELSE IF data.type = "str" /\ Has(Strip(data.chars), 1, <<"{">>)
    THEN rprint_json_data(data)
    ELSE data

-----------------------------------------------------------------------------
(* Python's int has no width and its float is an IEEE 754 binary64.  A     *)
(* natural number is written here as its binary digits, lowest first and   *)
(* with no leading zero (0 is the empty sequence), so that numbers beyond  *)
(* the range of the model checker's integers can be computed with.  A      *)
(* float that is not negative is a pair [m, e] that stands for m * 2^e.    *)

\* y, once x is computed.  The model checker computes a value when it is
\* first used; computing it ahead keeps the uses from nesting, for which its
\* stack is too short.
After(x, y) == IF x = x THEN y ELSE y

\* a without its leading zeros
Trim(a) ==
    LET ones == {i \in 1..Len(a) : a[i] = 1}
    IN  IF ones = {} THEN <<>> ELSE SubSeq(a, 1, CHOOSE i \in ones : \A j \in ones : j <= i)

BigBit(a, i) == IF i <= Len(a) THEN a[i] ELSE 0

RECURSIVE BigOfInt(_)
BigOfInt(n) == IF n = 0 THEN <<>> ELSE <<n % 2>> \o BigOfInt(n \div 2)

RECURSIVE IntOfBig(_)
IntOfBig(a) == IF a = <<>> THEN 0 ELSE a[1] + 2 * IntOfBig(Tail(a))

\* Bits lo..hi of a + b + carry, and the carry out of bit hi.  The range is
\* halved at each level: the model checker's stack is too short for one
\* level per bit.
RECURSIVE BigAddRange(_, _, _, _, _)
BigAddRange(a, b, lo, hi, carry) ==
    IF lo > hi THEN [s |-> <<>>, c |-> carry]
    ELSE IF lo = hi
    THEN LET t == BigBit(a, lo) + BigBit(b, lo) + carry
         IN  [s |-> <<t % 2>>, c |-> t \div 2]
    ELSE LET mid   == (lo + hi) \div 2
             left  == BigAddRange(a, b, lo, mid, carry)
             right == BigAddRange(a, b, mid + 1, hi, left.c)
         IN  [s |-> left.s \o right.s, c |-> right.c]

\* a + b, and a - b for a >= b (a plus the complement of b plus 1)
BigAdd(a, b) == Trim(BigAddRange(a, b, 1, Max(Len(a), Len(b)) + 1, 0).s)
BigSub(a, b) ==
    Trim(BigAddRange(a, [i \in 1..Len(a) |-> 1 - BigBit(b, i)], 1, Len(a), 1).s)

\* a >= b
BigGeq(a, b) ==
    \/ Len(a) > Len(b)
    \/ /\ Len(a) = Len(b)
       /\ \A i \in 1..Len(a) :
              a[i] < b[i] => \E j \in (i + 1)..Len(a) : a[j] > b[j]

\* 2 * a, and a * b for a small b
BigTwice(a) == IF a = <<>> THEN <<>> ELSE <<0>> \o a
RECURSIVE BigMul(_, _)
BigMul(a, b) ==
    IF b = <<>> THEN <<>>
    ELSE LET rest == BigTwice(BigMul(a, Tail(b)))
         IN  After(rest, BigAdd(IF b[1] = 1 THEN a ELSE <<>>, rest))

\* int(s) of a decimal numeral s, four digits at a time
RECURSIVE BigOfDigits(_)
BigOfDigits(s) ==
    IF Len(s) <= 4 THEN BigOfInt(DigitsVal(s, 1, Len(s) + 1))
    ELSE LET high == BigOfDigits(SubSeq(s, 1, Len(s) - 4))
             low  == BigOfInt(DigitsVal(s, Len(s) - 3, Len(s) + 1))
         IN  After(high, BigAdd(BigMul(high, BigOfInt(10000)), low))

\* Long division of n by d > 0 over the bits hi down to lo of n, from the
\* quotient q and the remainder r of the bits above hi.
RECURSIVE BigDivModRange(_, _, _, _, _)
BigDivModRange(n, d, hi, lo, qr) ==
    IF hi < lo THEN qr
    ELSE IF hi = lo
    THEN LET r2 == Trim(<<n[hi]>> \o qr.r)
         IN  IF BigGeq(r2, d) THEN [q |-> <<1>> \o qr.q, r |-> BigSub(r2, d)]
             ELSE [q |-> BigTwice(qr.q), r |-> r2]
    ELSE LET mid  == (hi + lo + 1) \div 2
             high == BigDivModRange(n, d, hi, mid, qr)
         IN  After(high, BigDivModRange(n, d, mid - 1, lo, high))

\* n // d and n % d
BigDivMod(n, d) == BigDivModRange(n, d, Len(n), 1, [q |-> <<>>, r |-> <<>>])

\* n / 2^k rounded to the nearest integer, a tie to the even one.
ShiftRound(n, k) ==
    IF k <= 0 THEN n
    ELSE LET q      == SubSeq(n, k + 1, Len(n))
             guard  == BigBit(n, k) = 1
             sticky == \E i \in 1..Min(k - 1, Len(n)) : n[i] = 1
         IN  IF guard /\ (sticky \/ BigBit(q, 1) = 1) THEN BigAdd(q, <<1>>) ELSE q

\* The binary64 nearest to m * 2^e: 53 significant bits.
Float(m, e) ==
    [m |-> ShiftRound(m, Len(m) - 53), e |-> e + Max(Len(m) - 53, 0)]

\* a / b of two ints, b > 0: the binary64 nearest to the quotient.  The
\* quotient is taken to 55 bits or more and a last bit tells whether the
\* division left a remainder.
TrueDivide(a, b) ==
    LET k  == Max(Len(b) - Len(a) + 55, 0)
        qr == BigDivMod([i \in 1..k |-> 0] \o a, b)
    IN  IF a = <<>> THEN [m |-> <<>>, e |-> 0]
        ELSE After(b, After(qr, Float(<<IF qr.r = <<>> THEN 0 ELSE 1>> \o qr.q,
                                      0 - (k + 1))))

\* x * n of a float and a small int
FloatTimes(x, n) ==
    LET product == BigMul(x.m, BigOfInt(n))
    IN  After(product, Float(product, x.e))

\* int(x // 1) of a float: its integer part
FloatFloor(x) ==
    IF x.e >= 0 THEN [i \in 1..x.e |-> 0] \o x.m
    ELSE SubSeq(x.m, 1 - x.e, Len(x.m))

\* f"{x:.1f}" of a float below 2^31 / 10: the decimal with one digit after
\* the point nearest to x, a tie to the even one.
FormatTenths(x) ==
    LET n == BigMul(x.m, BigOfInt(10))
        t == IntOfBig(IF x.e >= 0 THEN [i \in 1..x.e |-> 0] \o n
                      ELSE ShiftRound(n, 0 - x.e))
    IN  IntStr(t \div 10) \o <<".", Digits[(t % 10) + 1]>>

-----------------------------------------------------------------------------
(* Progress and status.  "(#)" stands for U+2588, the filled cell of the   *)
(* bar, and "(-)" for U+2591, the empty one.  An int argument is written   *)
(* as its decimal numeral, which is also its str().                        *)

\* Cells of the progress bar.
BarWidth == 20

\* "x" * n: n copies of x, none when n is negative.
Times(x, n) == [i \in 1..n |-> x]

\* rprint_progress_bar(current, total, description), for ints that are not
\* negative: the percentage is the float (current / total) * 100, and the
\* bar has int(percentage // 5) filled cells and 20 less that many empty
\* ones.
rprint_progress_bar(current, total, description) ==
    Enter("rprint_progress_bar",
          IF BigOfDigits(total) = <<>> THEN Raise("ZeroDivisionError")
          ELSE LET ratio      == TrueDivide(BigOfDigits(current), BigOfDigits(total))
                   percentage == After(ratio, FloatTimes(ratio, 100))
                   filled     == IntOfBig(FloatFloor(percentage)) \div 5
                   bar == Times("(#)", filled) \o Times("(-)", BarWidth - filled)
               IN  After(percentage,
                         rprint(Markup(<<"[cyan]">> \o description \o <<": [">> \o bar
                                       \o <<"] ">> \o current \o <<"/">> \o total
                                       \o <<" (">> \o FormatTenths(percentage)
                                       \o <<"%)", "[/cyan]">>))))

\* The two lines of rprint_countdown: the tick for the value i of the loop,
\* which rich.print ends with a carriage return instead of a newline, and
\* the line after the loop.
TickLine(message, i) ==
    [kind |-> "text",
     arg  |-> <<"[yellow]">> \o message \o <<": ">> \o IntStr(i) \o <<"s", "[/yellow]">>,
     end  |-> "\r"]

DoneLine(message) == Markup(<<"[green]">> \o message \o <<": Done!", "[/green]">>)

-----------------------------------------------------------------------------
(* User input *)

\* The arguments of Prompt.ask: the prompt, and the choices when given.
PromptArgs(prompt, choices_given, choices) ==
    [prompt |-> prompt, choices_given |-> choices_given, choices |-> choices]

\* No Prompt.ask was called yet.
NoPrompt == PromptArgs(<<>>, FALSE, <<>>)

\* rprint_ask_choice that leaves the choices out of the call.
rprint_ask_choice_unchecked(question, choices) ==
    PromptArgs(<<"[cyan]">> \o question \o <<"[/cyan]">>, FALSE, <<>>)

\* return Prompt.ask(f"[cyan]{question}[/cyan]", choices=choices): the
\* arguments rprint_ask_choice hands to Prompt.ask, whose result it returns.
rprint_ask_choice(question, choices) ==
    PromptArgs(<<"[cyan]">> \o question \o <<"[/cyan]">>, TRUE, choices)

\* What Prompt.ask writes before it reads a line: the prompt with its choices.
PromptLine(args) ==
    [kind |-> "prompt", prompt |-> args.prompt, choices_given |-> args.choices_given,
     choices |-> args.choices]

\* Prompt.ask takes the line as the answer: any line when no choices were
\* given, a member of the choices otherwise.
PromptAccepts(args, line) ==
    ~args.choices_given \/ \E i \in 1..Len(args.choices) : args.choices[i] = line

\* What Prompt.ask writes on a line it does not take.
InvalidChoice ==
    Markup(<<"[prompt.invalid.choice]", "Please select one of the available options">>)

-----------------------------------------------------------------------------
(* Text preview with truncation *)

\* rprint_preview_text that cuts one character short of the cap.
rprint_preview_text_short(text, max_chars) ==
    Enter("rprint_preview_text",
          LET preview == IF Len(text) > max_chars
                         THEN SliceTo(text, max_chars - 1) \o <<"...">>
                         ELSE text
          IN  rprint(Markup(<<"[dim]">> \o preview \o <<"[/dim]">>)))

\* preview = text[:max_chars] + "..." if len(text) > max_chars else text
rprint_preview_text(text, max_chars) ==
    Enter("rprint_preview_text",
          LET preview == IF Len(text) > max_chars
                         THEN SliceTo(text, max_chars) \o <<"...">>
                         ELSE text
          IN  rprint(Markup(<<"[dim]">> \o preview \o <<"[/dim]">>)))

-----------------------------------------------------------------------------
(* Dividers, and the helpers that write more than once *)

\* A rich Rule: a horizontal line, with a title when one is given.
Rule(title, style) == [kind |-> "rule", title |-> title, style |-> style]

\* The statements es, one after the other.
RECURSIVE ThenAll(_)
ThenAll(es) == IF es = <<>> THEN Skip ELSE Then(Head(es), ThenAll(Tail(es)))

\* rprint_divider(title, style): a titled rule when the title is not empty.
rprint_divider(title, style) ==
    Enter("rprint_divider",
          IF title # <<>>
          THEN rprint(Rule(<<"[bold blue]">> \o title \o <<"[/bold blue]">>, style))
          ELSE rprint(Rule(<<>>, style)))

\* Number of "-" in the thin divider.
ThinDividerWidth == 60

\* rprint("[dim]" + "-" * 60 + "[/dim]")
rprint_thin_divider ==
    Enter("rprint_thin_divider",
          rprint(Markup(<<"[dim]">> \o [i \in 1..ThinDividerWidth |-> "-"]
                        \o <<"[/dim]">>)))

\* rprint_artifact_list(artifacts): the header with the number of files, the
\* thin divider, then one line per item of the dict, in its order.
rprint_artifact_list(artifacts) ==
    Enter("rprint_artifact_list",
          ThenAll(<<rprint(Markup(<<"\n", "[bold yellow]", "Generated Artifacts (">>
                                  \o IntStr(PyLen(artifacts))
                                  \o <<" files):", "[/bold yellow]">>)),
                    rprint_thin_divider>>
                  \o [i \in 1..PyLen(artifacts) |->
                         rprint(Markup(<<"  ", "[cyan]", "(.)", " ">>
                                       \o FormatKey(artifacts.items[i].k)
                                       \o <<":", "[/cyan]", " ">>
                                       \o Str(artifacts.items[i].v)))]))

\* The title of the rule rprint_pipeline_complete draws, and the default
\* style argument of rprint_divider.
ResearchComplete ==
    <<"R", "e", "s", "e", "a", "r", "c", "h", " ",
      "C", "o", "m", "p", "l", "e", "t", "e">>
DividerStyle == "="

\* rprint_pipeline_complete that writes its message before its divider.
rprint_pipeline_complete_message_first ==
    Enter("rprint_pipeline_complete",
          Then(rprint(Markup(<<"[bold green]", "Research pipeline complete!",
                               "[/bold green]">>)),
               rprint_divider(ResearchComplete, DividerStyle)))

\* rprint_pipeline_complete(): the divider, then the message.
rprint_pipeline_complete ==
    Enter("rprint_pipeline_complete",
          Then(rprint_divider(ResearchComplete, DividerStyle),
               rprint(Markup(<<"[bold green]", "Research pipeline complete!",
                               "[/bold green]">>))))

-----------------------------------------------------------------------------
(* Connection items *)

\* Width the preview of a connection item is cut to.
PreviewWidth == 80

\* f"{score:.3f}" of a score given in thousandths: 870 is "0.870".
FormatScore(m) ==
    IntStr(m \div 1000)
    \o <<".", Digits[((m \div 100) % 10) + 1], Digits[((m \div 10) % 10) + 1],
         Digits[(m % 10) + 1]>>

\* rprint_connection_item(index, name, score, preview): the numbered name
\* with its score, then the first 80 characters of the preview and "...".
rprint_connection_item(index, name, score, preview) ==
    Enter("rprint_connection_item",
          Then(rprint(Markup(<<"   ", "[yellow]">> \o IntStr(index)
                             \o <<".", "[/yellow]", " ", "[magenta]">> \o name
                             \o <<"[/magenta]", " Score: ", "[green]">>
                             \o FormatScore(score) \o <<"[/green]">>)),
               rprint(Markup(<<"      ", "[dim]">> \o SliceTo(preview, PreviewWidth)
                             \o <<"...", "[/dim]">>))))

-----------------------------------------------------------------------------
(* Universal logging function *)

\* The names bound in the module's global namespace once it is imported:
\* what its import statements bind, console, and every def.  The helpers
\* look their callees up here at call time; no name "info" is bound.
ModuleGlobals ==
    { "rprint", "Panel", "Progress", "SpinnerColumn", "TextColumn",
      "BarColumn", "TimeElapsedColumn", "Console", "Text", "Rule", "Tree",
      "Table", "Columns", "Align", "Syntax", "JSON", "Status", "Prompt",
      "Confirm", "Markdown", "ROUNDED", "DOUBLE", "MINIMAL", "time",
      "json", "contextlib", "Optional", "List", "Dict", "Any", "Union",
      "console", "rprint_json", "rprint_table", "rprint_tree",
      "rprint_code", "rprint_markdown", "rprint_progress_bar",
      "rprint_spinner", "rprint_countdown", "rprint_ask",
      "rprint_ask_yes_no", "rprint_ask_choice", "rprint_side_by_side",
      "rprint_multi_column", "rprint_diff", "rprint_key_value",
      "rprint_list", "rprint_info", "rprint_success", "rprint_warning",
      "rprint_error", "rprint_debug", "rprint_progress_msg",
      "rprint_operation_start", "rprint_operation_complete",
      "rprint_step_progress", "rprint_search_result",
      "rprint_connection_item", "rprint_decision_output",
      "rprint_status_update", "rprint_process_step",
      "rprint_section_panel", "rprint_status_panel",
      "rprint_completion_panel", "rprint_error_panel", "rprint_divider",
      "rprint_thin_divider", "rprint_execution_summary",
      "rprint_artifact_list", "rprint_loading", "rprint_pipeline_start",
      "rprint_pipeline_init", "rprint_search_term_extracted",
      "rprint_memory_search_start", "rprint_no_memories_found",
      "rprint_memory_connections_header", "rprint_research_complete",
      "rprint_generating_report", "rprint_api_error",
      "rprint_tracker_error", "rprint_fallback_notice",
      "rprint_pipeline_complete", "rprint_pipeline_failed",
      "rprint_memory_storage_prompt", "rprint_memory_stored",
      "rprint_memory_skipped", "rprint_test_start", "rprint_test_success",
      "rprint_test_failure", "rprint_separator", "rprint_header",
      "rprint_subheader", "rprint_welcome_banner",
      "rprint_completion_banner", "rprint_preview_text", "print_green",
      "print_red", "print_yellow", "print_blue", "print_cyan",
      "print_magenta", "print_dim", "print_bold", "rprint_log",
      "rprint_display_any", "rprint_replacement" }

\* The dict literal of rprint_log.
level_map ==
    [l \in Levels |->
        CASE l = "info"     -> "rprint_info"
          [] l = "success"  -> "rprint_success"
          [] l = "warning"  -> "rprint_warning"
          [] l = "error"    -> "rprint_error"
          [] l = "debug"    -> "rprint_debug"
          [] l = "progress" -> "rprint_progress_msg"]

\* func = level_map.get(level, info); func(message).  Python evaluates both
\* arguments of .get before the lookup, so the global name info is resolved
\* on every call, whatever the level.
rprint_log(message, level) ==
    Enter("rprint_log",
          IF "info" \notin ModuleGlobals THEN Raise("NameError")
          ELSE CallHelper(IF level \in DOMAIN level_map THEN level_map[level]
                          ELSE "info", message))

-----------------------------------------------------------------------------
(* The helpers the test scripts call.  A call is a function name and the   *)
(* tuple of the arguments written at the call site: a str argument is a    *)
(* string literal, an int argument a number, a score a number of           *)
(* thousandths, an execution time a number of hundredths (f"{t:.2f}" of    *)
(* 4567 is "45.67").  "(->)" stands for U+2192 and "(.)" for U+2022.       *)

\* The effect of name(*args), for the helpers of the module that the test
\* scripts call.  A parameter with a default takes it when the call site
\* gives no argument for it.
CallFunction(name, args) ==
    CASE name = "rprint_info" -> rprint_info(Chars(args[1]))
      [] name = "rprint_success" -> rprint_success(Chars(args[1]))
      [] name = "rprint_warning" -> rprint_warning(Chars(args[1]))
      [] name = "rprint_error" -> rprint_error(Chars(args[1]))
      [] name = "rprint_debug" -> rprint_debug(Chars(args[1]))
      [] name = "rprint_progress_msg" -> rprint_progress_msg(Chars(args[1]))
      [] name = "rprint_operation_start" ->
            Enter(name,
                  rprint(Markup(<<"\n", "[bold blue]">> \o Chars(args[1])
                                \o <<"[/bold blue]">>
                                \o (IF Len(args) >= 2 /\ args[2] # ""
                                    THEN <<" - ">> \o Chars(args[2]) ELSE <<>>))))
      [] name = "rprint_operation_complete" ->
            Enter(name,
                  rprint(Markup(<<"[bold green]", "(v)", " ">> \o Chars(args[1])
                                \o <<" Complete", "[/bold green]">>
                                \o (IF Len(args) >= 2 /\ args[2] # ""
                                    THEN <<" ", "(->)", " ">> \o Chars(args[2])
                                    ELSE <<>>))))
      [] name = "rprint_step_progress" ->
            Enter(name,
                  Then(rprint(Markup(<<"\n", "[bold cyan]", "Step ">>
                                     \o IntStr(args[1]) \o <<"/">> \o IntStr(args[2])
                                     \o <<"[/bold cyan]">>)),
                       rprint(Markup(<<"[cyan]">> \o Chars(args[3]) \o <<"[/cyan]">>))))
      [] name = "rprint_search_result" ->
            Enter(name,
                  rprint(Markup(<<"[green]", "Found ">> \o IntStr(args[1])
                                \o <<" results for '">> \o Chars(args[2])
                                \o <<"'", "[/green]">>)))
      [] name = "rprint_connection_item" ->
            rprint_connection_item(args[1], Chars(args[2]), args[3], Chars(args[4]))
      [] name = "rprint_decision_output" ->
            Enter(name,
                  Then(rprint(Markup(<<"\n", "[bold yellow]", "Decision:",
                                       "[/bold yellow]">>)),
                       rprint(Markup(<<"[yellow]", "   ">> \o Chars(args[1])
                                     \o <<"[/yellow]">>))))
      [] name = "rprint_status_update" ->
            Enter(name,
                  rprint(Markup(<<"[green]">> \o Chars(args[1])
                                \o (IF Len(args) >= 2
                                    THEN <<" (">> \o IntStr(args[2]) \o <<")">>
                                    ELSE <<>>)
                                \o <<"[/green]">>)))
      [] name = "rprint_section_panel" ->
            LET color == IF Len(args) >= 3 THEN args[3] ELSE "blue"
            IN  Enter(name,
                      rprint(Panel(Chars(args[2]),
                                   <<"[bold ", color, "]">> \o Chars(args[1])
                                   \o <<"[/bold ", color, "]">>,
                                   color)))
      [] name = "rprint_status_panel" ->
            Enter(name,
                  rprint(Panel(<<"[yellow]">> \o Chars(args[1]) \o <<"[/yellow]">>,
                               <<>>, "yellow")))
      [] name = "rprint_completion_panel" ->
            Enter(name,
                  rprint(Panel(<<"[green]">> \o Chars(args[1]) \o <<"[/green]">>,
                               <<>>, "green")))
      [] name = "rprint_error_panel" ->
            Enter(name,
                  rprint(Panel(<<"[red]">> \o Chars(args[1]) \o <<"[/red]">>,
                               <<>>, "red")))
      [] name = "rprint_divider" ->
            rprint_divider(IF Len(args) >= 1 THEN Chars(args[1]) ELSE <<>>,
                           IF Len(args) >= 2 THEN args[2] ELSE DividerStyle)
      [] name = "rprint_execution_summary" ->
            Enter(name,
                  ThenAll(<<rprint(Markup(<<"\n", "[bold green]",
                                            "Pipeline Execution Complete",
                                            "[/bold green]">>)),
                            rprint(Markup(<<"[blue]", "  ", "(.)", " Total Time: ">>
                                          \o IntStr(args[2] \div 100) \o <<".">>
                                          \o <<Digits[((args[2] \div 10) % 10) + 1],
                                                Digits[(args[2] % 10) + 1]>>
                                          \o <<" seconds", "[/blue]">>)),
                            rprint(Markup(<<"[blue]", "  ", "(.)", " Session ID: ">>
                                          \o Chars(args[1]) \o <<"[/blue]">>)),
                            rprint(Markup(<<"[blue]", "  ", "(.)", " Question: ">>
                                          \o Chars(args[3]) \o <<"[/blue]">>)),
                            rprint(Markup(<<"[blue]", "  ", "(.)",
                                            " Artifacts Generated: ">>
                                          \o IntStr(args[4])
                                          \o <<" files", "[/blue]">>))>>))
      [] name = "rprint_artifact_list" -> rprint_artifact_list(args[1])
      [] name = "rprint_key_value" ->
            rprint_key_value(args[1],
                             Chars(IF Len(args) >= 2 THEN args[2] ELSE "Information"))
      [] name = "rprint_memory_connections_header" ->
            Enter(name,
                  rprint(Markup(<<"[bold yellow]", "Memory Connections Discovered:",
                                  "[/bold yellow]">>)))
      [] name = "rprint_research_complete" ->
            Enter(name,
                  rprint(Markup(<<"[bold green]",
                                  "Strategic research complete - enough information gathered!",
                                  "[/bold green]">>)))
      [] name = "rprint_generating_report" ->
            Enter(name,
                  rprint(Markup(<<"[yellow]", "Generating final report...",
                                  "[/yellow]">>)))
      [] name = "rprint_api_error" ->
            Enter(name,
                  rprint(Markup(<<"[red]", "API Error: ">> \o Chars(args[1])
                                \o <<"[/red]">>)))
      [] name = "rprint_tracker_error" ->
            Enter(name,
                  rprint(Markup(<<"[yellow]", "Warning: ">> \o Chars(args[1])
                                \o <<"[/yellow]">>)))
      [] name = "rprint_fallback_notice" ->
            Enter(name,
                  rprint(Markup(<<"[yellow]", "Fallback: ">> \o Chars(args[1])
                                \o <<"[/yellow]">>)))
      [] name = "rprint_pipeline_complete" -> rprint_pipeline_complete
      [] name = "rprint_separator" -> Enter(name, rprint(Markup(<<>>)))
      [] name = "rprint_header" ->
            Enter(name,
                  rprint(Markup(<<"\n", "[bold blue]">> \o Chars(args[1])
                                \o <<"[/bold blue]">>)))
      [] name = "rprint_welcome_banner" ->
            Enter(name,
                  rprint(Panel(<<"[bold blue]", "Deep Memory Research Pipeline",
                                 "[/bold blue]", "\n", "[cyan]",
                                 "I'll help you research your mem0 memories comprehensively!",
                                 "[/cyan]">>,
                               <<>>, "blue")))
      [] name = "rprint_completion_banner" ->
            Enter(name,
                  rprint(Panel(<<"[green]", "Total memories in database: ">>
                               \o IntStr(args[1]) \o <<"[/green]">>,
                               <<>>, "green")))

-----------------------------------------------------------------------------
(* The test scripts.  test_rprint_helper.py and test_display_helper.py are *)
(* the same text but for the prefix of the helpers they name: "rprint_" in *)
(* the first, "display_" in the second.  Each defines seven test functions *)
(* and main, whose bodies are sequences of calls without branches.         *)

\* The test functions, in the order main calls them.
TestFunctions ==
    <<"test_basic_messages", "test_research_pipeline", "test_patient_display",
      "test_panels_and_banners", "test_execution_summary", "test_pipeline_flow",
      "test_error_handling">>

\* The statements of each function of a script whose helpers are named
\* with prefix P.
ScriptBody(P) ==
    [ test_basic_messages |->
        << [fn |-> P \o "header", args |-> <<"Basic Message Types">>],
           [fn |-> P \o "info", args |-> <<"This is an info message">>],
           [fn |-> P \o "success",
            args |-> <<"Operation completed successfully">>],
           [fn |-> P \o "warning", args |-> <<"This is a warning message">>],
           [fn |-> P \o "error", args |-> <<"Something went wrong">>],
           [fn |-> P \o "debug", args |-> <<"Debug information here">>],
           [fn |-> P \o "progress_msg", args |-> <<"Processing data...">>],
           [fn |-> P \o "separator", args |-> <<>>] >>,
      test_research_pipeline |->
        << [fn |-> P \o "header", args |-> <<"Research Pipeline Messages">>],
           [fn |-> P \o "operation_start",
            args |-> <<"Database Analysis", "Loading memories from storage">>],
           [fn |-> "time.sleep", args |-> <<>>],
           [fn |-> P \o "search_result",
            args |-> <<5, "diabetes treatment">>],
           [fn |-> P \o "operation_complete",
            args |-> <<"Database Analysis", "artifacts/metadata.json">>],
           [fn |-> P \o "separator", args |-> <<>>],
           [fn |-> P \o "step_progress",
            args |-> <<1, 5, "diabetes symptoms">>],
           [fn |-> P \o "memory_connections_header", args |-> <<>>],
           [fn |-> P \o "connection_item",
            args |-> <<1, "Elena Vance", 870, "Elena Vance has type 2 diabetes and takes metformin 500mg daily">>],
           [fn |-> P \o "connection_item",
            args |-> <<2, "Marcus Chen", 820, "Marcus Chen manages his insulin carefully with blood glucose monitoring">>],
           [fn |-> P \o "decision_output",
            args |-> <<"Continue research with insulin management focus">>],
           [fn |-> P \o "separator", args |-> <<>>] >>,
      test_patient_display |->
        << [fn |-> P \o "header", args |-> <<"Patient Information Display">>],
           [fn |-> P \o "key_value",
            args |-> <<PyDict(<<Item(Chars("name"), PyStr(Chars("Elena Blackthorne"))),
                             Item(Chars("age"), PyStr(Chars("34y"))),
                             Item(Chars("gender"), PyStr(Chars("female"))),
                             Item(Chars("condition"), PyStr(Chars("Type 1 Diabetes")))>>), "Patient Information">>],
           [fn |-> P \o "info", args |-> <<"Round 1:">>],
           [fn |-> P \o "info",
            args |-> <<"Elena Blackthorne: I've been having trouble with my blood sugar levels">>],
           [fn |-> P \o "success",
            args |-> <<"Dr. Sarah Chen: Let's review your current medication regimen">>],
           [fn |-> P \o "status_update",
            args |-> <<"Stored medical facts", 7>>],
           [fn |-> P \o "separator", args |-> <<>>] >>,
      test_panels_and_banners |->
        << [fn |-> P \o "header", args |-> <<"Panels and Banners">>],
           [fn |-> P \o "welcome_banner", args |-> <<>>],
           [fn |-> P \o "separator", args |-> <<>>],
           [fn |-> P \o "section_panel",
            args |-> <<"Research Status", "Analysis in progress...", "cyan">>],
           [fn |-> P \o "status_panel",
            args |-> <<"Analyzing 67 memories from database">>],
           [fn |-> P \o "completion_panel",
            args |-> <<"Research completed successfully">>],
           [fn |-> P \o "separator", args |-> <<>>],
           [fn |-> P \o "completion_banner", args |-> <<150>>] >>,
      test_execution_summary |->
        << [fn |-> P \o "header", args |-> <<"Execution Summary">>],
           [fn |-> P \o "execution_summary",
            args |-> <<"20250817_143022", 4567, "What are effective diabetes treatments?", 5>>],
           [fn |-> P \o "artifact_list",
            args |-> <<PyDict(<<Item(Chars("metadata"), PyStr(Chars("artifacts/20250817_metadata.json"))),
                             Item(Chars("plan"), PyStr(Chars("artifacts/20250817_plan.json"))),
                             Item(Chars("final_answer"), PyStr(Chars("artifacts/20250817_final_answer.md")))>>)>>],
           [fn |-> P \o "separator", args |-> <<>>] >>,
      test_pipeline_flow |->
        << [fn |-> P \o "header", args |-> <<"Complete Pipeline Flow">>],
           [fn |-> P \o "divider",
            args |-> <<"Starting Deep Research Pipeline">>],
           [fn |-> P \o "info",
            args |-> <<"Research Question: What are the most effective diabetes treatments for elderly patients?">>],
           [fn |-> P \o "separator", args |-> <<>>],
           [fn |-> P \o "operation_start", args |-> <<"Strategic Planning">>],
           [fn |-> P \o "progress_msg",
            args |-> <<"Creating research strategy">>],
           [fn |-> P \o "operation_complete",
            args |-> <<"Strategic Planning", "artifacts/plan.json">>],
           [fn |-> P \o "operation_start", args |-> <<"Deep Research">>],
           [fn |-> P \o "step_progress",
            args |-> <<1, 3, "elderly diabetes">>],
           [fn |-> P \o "search_result", args |-> <<4, "elderly diabetes">>],
           [fn |-> P \o "decision_output",
            args |-> <<"NEXT_SEARCH: medication effectiveness">>],
           [fn |-> P \o "step_progress",
            args |-> <<2, 3, "medication effectiveness">>],
           [fn |-> P \o "search_result",
            args |-> <<6, "medication effectiveness">>],
           [fn |-> P \o "decision_output", args |-> <<"ENOUGH_INFO: YES">>],
           [fn |-> P \o "research_complete", args |-> <<>>],
           [fn |-> P \o "generating_report", args |-> <<>>],
           [fn |-> P \o "operation_complete",
            args |-> <<"Deep Research", "artifacts/final_answer.md">>],
           [fn |-> P \o "pipeline_complete", args |-> <<>>] >>,
      test_error_handling |->
        << [fn |-> P \o "header", args |-> <<"Error Handling">>],
           [fn |-> P \o "api_error",
            args |-> <<"Failed to connect to Mem0 API">>],
           [fn |-> P \o "tracker_error",
            args |-> <<"Could not inject memory context">>],
           [fn |-> P \o "fallback_notice",
            args |-> <<"Using direct mem0 search instead of ID tracker">>],
           [fn |-> P \o "error_panel",
            args |-> <<"Critical system failure detected">>] >>,
      main |->
        << [fn |-> P \o "welcome_banner", args |-> <<>>],
           [fn |-> "test_basic_messages", args |-> <<>>],
           [fn |-> "test_research_pipeline", args |-> <<>>],
           [fn |-> "test_patient_display", args |-> <<>>],
           [fn |-> "test_panels_and_banners", args |-> <<>>],
           [fn |-> "test_execution_summary", args |-> <<>>],
           [fn |-> "test_pipeline_flow", args |-> <<>>],
           [fn |-> "test_error_handling", args |-> <<>>],
           [fn |-> P \o "divider", args |-> <<"Testing Complete">>],
           [fn |-> P \o "success",
            args |-> <<"All rprint helper functions tested successfully!">>] >> ]

\* The two scripts; the functions a script defines are the DOMAIN of its
\* record.
Scripts ==
    [test_rprint_helper |-> ScriptBody("rprint_"),
     test_display_helper |-> ScriptBody("display_")]

\* A script's namespace in which import * bound no rprint_divider.
ScriptGlobals_without_divider(script) ==
    (ModuleGlobals \ {"rprint_divider"}) \cup DOMAIN Scripts[script]

\* The names bound in a script's global namespace when main runs: those
\* "from ultimate_rprint import *" copies from the module (none of the
\* module's names starts with "_" and it declares no __all__), time, and
\* the script's own functions.
ScriptGlobals(script) == ModuleGlobals \cup DOMAIN Scripts[script]

-----------------------------------------------------------------------------
(* Inputs *)

\* Caller messages.
Messages == {<<>>, <<"o", "k">>}

\* Levels a caller may pass: the enumerated ones and two others.
AnyLevels == Levels \cup {"trace", ""}

\* Longest caller text, in characters, and the largest cap a caller passes.
MaxTextLen == 3
MaxCap == 3

\* The characters of caller text.
Alphabet == {"a", "b", "c"}

\* Sequences over S of length at most n.
SeqsUpTo(S, n) == UNION {[1..k -> S] : k \in 0..n}

\* Caller texts.
Texts == SeqsUpTo(Alphabet, MaxTextLen)

\* Longest list a caller passes as table data.
MaxRows == 3

\* Rows of table data: a full row, a row that lacks a key of the first, a
\* row with its keys in another order and one more, an empty row, and a
\* row whose one value is longer than a cell.
SampleRows ==
    { PyDict(<<Item(<<"n", "a", "m", "e">>, PyStr(<<"a", "b">>)),
               Item(<<"t", "o", "p", "_", "k">>, PyInt(1))>>),
      PyDict(<<Item(<<"n", "a", "m", "e">>, PyStr(<<"c">>))>>),
      PyDict(<<Item(<<"t", "o", "p", "_", "k">>, PyInt(12)),
               Item(<<"n", "a", "m", "e">>, PyNone),
               Item(<<"i", "d">>, PyInt(7))>>),
      PyDict(<<>>),
      PyDict(<<Item(<<"n", "a", "m", "e">>,
                    PyStr([i \in 1..(CellWidth + 2) |-> "x"]))>>) }

\* Lists of rows.
TableData == {PyList(rows) : rows \in SeqsUpTo(SampleRows, MaxRows)}

\* The default title of rprint_table, "Table".
TableTitle == <<"T", "a", "b", "l", "e">>

\* Largest dict a caller passes.
MaxDictLen == 11

\* The dict {"k_0": 0, ..., "k_<n-1>": n-1}.
DictOfLen(n) ==
    PyDict([i \in 1..n |-> Item(<<"k", "_">> \o IntStr(i - 1), PyInt(i - 1))])

\* Dict payloads: one of each size, a small one that holds a bytes value and
\* one of SmallDictLimit items whose last value is bytes.
DictPayloads ==
    {DictOfLen(n) : n \in 0..MaxDictLen}
    \cup {PyDict(<<Item(<<"r", "a", "w">>, PyBytes(<<"a">>))>>)}
    \cup {PyDict(Append(DictOfLen(SmallDictLimit - 1).items,
                        Item(<<"r", "a", "w">>, PyBytes(<<"a">>))))}

\* List payloads that are not lists of dicts.
PlainLists ==
    { PyList(<<PyStr(<<"a">>), PyInt(2)>>),
      PyList(<<PyNone>>),
      PyList(<<PyDict(<<Item(<<"i", "d">>, PyInt(1))>>), PyStr(<<"b">>)>>) }

\* The text json.dumps gives DictOfLen(n): {"k_0": 0, "k_1": 1}
JsonTextOfLen(n) ==
    <<"{">>
    \o Join([i \in 1..n |->
                <<"\"", "k", "_">> \o IntStr(i - 1) \o <<"\"", ":", " ">>
                \o IntStr(i - 1)],
            <<",", " ">>)
    \o <<"}">>

\* str payloads: texts that parse as JSON objects, the spec's "{not json"
\* and other texts that do not parse, and texts that do not start with "{".
StrPayloads ==
    {PyStr(JsonTextOfLen(n)) : n \in {0, 1, SmallDictLimit - 1, SmallDictLimit}}
    \cup { PyStr(<<"{", "n", "o", "t", " ", "j", "s", "o", "n">>),
           PyStr(<<" ", "{", "\"", "a", "\"", ":", "1", "}", "\n">>),
           PyStr(<<"{", "\"", "a", "\"", ":", "1", ",", "}">>),
           PyStr(<<"{">>),
           PyStr(<<"[", "1", ",", "2", "]">>),
           PyStr(<<"[", "1", ",">>),
           PyStr(<<"h", "i">>),
           PyStr(<<>>) }

\* Payloads that are neither dict, list nor str.
ScalarPayloads == {PyInt(5), PyNone, PyBool(TRUE)}

\* Everything a caller passes to rprint_display_any.
Payloads ==
    DictPayloads \cup TableData \cup PlainLists \cup StrPayloads \cup ScalarPayloads

\* Longest list of strings a caller passes to rprint_list.
MaxItems == 3

\* The strings a caller lists, and the lists of them.
ItemTexts == {<<"a">>, <<"b", "c">>, <<>>}
ItemLists == SeqsUpTo(ItemTexts, MaxItems)

\* Artifact dicts a caller passes: none, one, and the three of the test
\* script (metadata, plan, final_answer), with short paths.
ArtifactMaps ==
    { PyDict(<<>>),
      PyDict(<<Item(<<"p", "l", "a", "n">>, PyStr(<<"p", ".", "j">>))>>),
      PyDict(<<Item(<<"m", "e", "t", "a", "d", "a", "t", "a">>, PyStr(<<"m", ".", "j">>)),
               Item(<<"p", "l", "a", "n">>, PyStr(<<"p", ".", "j">>)),
               Item(<<"f", "i", "n", "a", "l", "_", "a", "n", "s", "w", "e", "r">>,
                    PyStr(<<"f", ".", "m">>))>>) }

\* Tree data a caller passes: no branch; one branch of two items; a branch
\* of six items and an empty one.
TreeMaps ==
    { PyDict(<<>>),
      PyDict(<<Item(<<"a", "b">>, PyList(<<PyStr(<<"x">>), PyInt(7)>>))>>),
      PyDict(<<Item(<<"a">>, PyList([i \in 1..(TreeItemLimit + 1) |-> PyInt(i)])),
               Item(<<"b", "_", "c">>, PyList(<<>>))>>) }

\* The payloads a caller renders one after the other: of every shape, with
\* a row that lacks a key of the first row.
TwoRows ==
    PyList(<<PyDict(<<Item(<<"n", "a", "m", "e">>, PyStr(<<"a", "b">>)),
                      Item(<<"t", "o", "p", "_", "k">>, PyInt(1))>>),
             PyDict(<<Item(<<"n", "a", "m", "e">>, PyStr(<<"c">>))>>)>>)
NotJson == PyStr(<<"{", "n", "o", "t", " ", "j", "s", "o", "n">>)
RenderedDicts == {DictOfLen(1), DictOfLen(SmallDictLimit)}
RenderedLists == {PyList(<<>>), TwoRows}
RenderedStrs == {NotJson, PyStr(JsonTextOfLen(1))}
RenderedPayloads ==
    RenderedDicts \cup RenderedLists \cup RenderedStrs
    \cup {PyList(<<PyStr(<<"a">>), PyInt(2)>>), PyInt(5)}

\* How far past a cap the long texts of the model go.
MaxOver == 2

\* A text of n characters, each the last digit of its position.
TextOfLen(n) == [i \in 1..n |-> Digits[(i % 10) + 1]]

\* Texts around a cap: empty, one character, and from one character below
\* the cap to MaxOver above it.
TextsAround(cap) == {TextOfLen(n) : n \in {0, 1} \cup (cap - 1)..(cap + MaxOver)}

\* Largest total of a progress bar in the small range.
MaxTotal == 8

\* Longest countdown, and the messages of a countdown: the default and one
\* a caller passes.
MaxSeconds == 3
CountdownMessages == {Chars("Waiting"), Chars("Go")}

\* Titles a caller passes: the default "Data", and the empty title.
Titles == {<<"D", "a", "t", "a">>, <<>>}

\* Most lines the human types at one prompt.
MaxTyped == 3

\* The lines the human may type, and the choice lists a caller passes.
Lines == {"a", "b", "c", ""}
ChoiceLists == {<<"a", "b">>, <<"b">>, <<"c", "a">>, <<"a">>, <<"b", "c", "a">>}

\* The question of the prompt, "pick".
Question == <<"p", "i", "c", "k">>

-----------------------------------------------------------------------------
(* State machine *)

Init ==
    /\ out = <<>>
    /\ log = <<>>
    /\ pc = "idle"
    /\ asking = NoPrompt
    /\ typed = <<>>
    /\ run = [script |-> "none", entry |-> "none", status |-> "none",
              stack |-> <<>>, entered |-> <<>>]
    /\ timer = [rest |-> <<>>, at |-> "none"]

\* The caller may make a call: no call is in progress (the caller is
\* single-threaded), and the model follows at most n calls.
CanCall(n) == pc = "idle" /\ Len(log) < n

\* A top-level call c of a function that returns nothing and has effect e.
Do(c, e) ==
    /\ out' = out \o e.writes
    /\ log' = Append(log, [call |-> c, calls |-> e.calls, writes |-> e.writes,
                           raised |-> e.raised, ret |-> "None"])
    /\ UNCHANGED <<pc, asking, typed, run, timer>>

\* Some call was made, and the last one that was.
Called == Len(log) > 0
Last == log[Len(log)]

CallLog ==
    \E m \in Messages, l \in AnyLevels :
        /\ CanCall(MaxCalls)
        /\ Do([op |-> "rprint_log", message |-> m, level |-> l], rprint_log(m, l))

CallCategory ==
    \E m \in Messages, l \in Levels :
        /\ CanCall(MaxCalls)
        /\ Do([op |-> level_map[l], message |-> m], CallHelper(level_map[l], m))

NextLog == CallLog \/ CallCategory

SpecLog == Init /\ [][NextLog]_vars

\* One call of rprint_preview_text from the initial state.
CallPreview ==
    \E t \in Texts, n \in 0..MaxCap :
        /\ CanCall(1)
        /\ Do([op |-> "rprint_preview_text", text |-> t, max_chars |-> n],
              rprint_preview_text(t, n))

NextPreview == CallPreview

SpecPreview == Init /\ [][NextPreview]_vars

\* One call of rprint_table from the initial state.
CallTable ==
    \E d \in TableData, n \in 0..MaxCap :
        /\ CanCall(1)
        /\ Do([op |-> "rprint_table", data |-> d, title |-> TableTitle,
               max_rows |-> n],
              rprint_table(d, TableTitle, n))

\* One call of rprint_display_any from the initial state.
CallDisplayAny ==
    \E d \in Payloads, t \in Titles :
        /\ CanCall(1)
        /\ Do([op |-> "rprint_display_any", data |-> d, title |-> t],
              rprint_display_any(d, t))

\* One call of rprint_json from the initial state: a dict, a list or a str.
CallJson ==
    \E d \in DictPayloads \cup PlainLists \cup StrPayloads, t \in Titles :
        /\ CanCall(1)
        /\ Do([op |-> "rprint_json", data |-> d, title |-> t], rprint_json(d, t))

\* One call of rprint_list from the initial state, numbered or bulleted.
CallList ==
    \E items \in ItemLists, t \in Titles, numbered \in BOOLEAN :
        /\ CanCall(1)
        /\ Do([op |-> "rprint_list", items |-> items, title |-> t,
               numbered |-> numbered],
              rprint_list(items, t, numbered))

NextData == CallDisplayAny \/ CallTable \/ CallJson \/ CallList

SpecData == Init /\ [][NextData]_vars

\* rprint_ask_choice is called: Prompt.ask writes its prompt and blocks
\* until the human types a line.
AskChoice ==
    \E c \in ChoiceLists :
        /\ CanCall(1)
        /\ LET args == rprint_ask_choice(Question, c)
           IN  /\ asking' = args
               /\ out' = Append(out, PromptLine(args))
               /\ log' = Append(log,
                      [call |-> [op |-> "rprint_ask_choice", question |-> Question,
                                 choices |-> c],
                       calls |-> <<"rprint_ask_choice">>,
                       writes |-> <<PromptLine(args)>>,
                       raised |-> "none", ret |-> "None"])
        /\ pc' = "prompt"
        /\ typed' = <<>>
        /\ UNCHANGED <<run, timer>>

\* The human types a line at the prompt.  Prompt.ask returns a line it
\* accepts, and rprint_ask_choice returns it to the caller; on any other
\* line Prompt.ask says so and prompts again.
HumanTypes ==
    \E line \in Lines :
        /\ pc = "prompt"
        /\ Len(typed) < MaxTyped
        /\ typed' = Append(typed, line)
        /\ UNCHANGED <<asking, run, timer>>
        /\ IF PromptAccepts(asking, line)
           THEN /\ pc' = "idle"
                /\ log' = [log EXCEPT ![Len(log)].ret = line]
                /\ UNCHANGED out
           ELSE /\ pc' = "prompt"
                /\ out' = out \o <<InvalidChoice, PromptLine(asking)>>
                /\ log' = [log EXCEPT ![Len(log)].writes =
                                          @ \o <<InvalidChoice, PromptLine(asking)>>]

NextAsk == AskChoice \/ HumanTypes

SpecAsk == Init /\ [][NextAsk]_vars

-----------------------------------------------------------------------------
\* A caller's sequence of calls of the category helpers and of the two
\* helpers that write more than once.
CallArtifactList ==
    \E a \in ArtifactMaps :
        /\ CanCall(MaxCalls)
        /\ Do([op |-> "rprint_artifact_list", artifacts |-> a], rprint_artifact_list(a))

CallPipelineComplete ==
    /\ CanCall(MaxCalls)
    /\ Do([op |-> "rprint_pipeline_complete"], rprint_pipeline_complete)

NextStream == CallCategory \/ CallArtifactList \/ CallPipelineComplete

SpecStream == Init /\ [][NextStream]_vars

-----------------------------------------------------------------------------
\* Longest sequence of renderer calls the model follows.
MaxRenders == 2

\* A top-level call c of a renderer with effect e that leaves the object it
\* was given as after.
DoRender(c, e, after) ==
    /\ out' = out \o e.writes
    /\ log' = Append(log, [call |-> c, calls |-> e.calls, writes |-> e.writes,
                           raised |-> e.raised, ret |-> "None", after |-> after])
    /\ UNCHANGED <<pc, asking, typed, run, timer>>

\* The title of these calls, the default "Data".
DataTitle == <<"D", "a", "t", "a">>

RenderAny ==
    \E d \in RenderedPayloads :
        /\ CanCall(MaxRenders)
        /\ DoRender([op |-> "rprint_display_any", data |-> d, title |-> DataTitle],
                    rprint_display_any(d, DataTitle), rprint_display_any_data(d))

RenderJson ==
    \E d \in RenderedDicts \cup RenderedStrs :
        /\ CanCall(MaxRenders)
        /\ DoRender([op |-> "rprint_json", data |-> d, title |-> DataTitle],
                    rprint_json(d, DataTitle), rprint_json_data(d))

RenderTable ==
    \E d \in RenderedLists, n \in {1, DefaultMaxRows} :
        /\ CanCall(MaxRenders)
        /\ DoRender([op |-> "rprint_table", data |-> d, title |-> DataTitle,
                     max_rows |-> n],
                    rprint_table(d, DataTitle, n), rprint_table_data(d, n))

RenderKeyValue ==
    \E d \in RenderedDicts :
        /\ CanCall(MaxRenders)
        /\ DoRender([op |-> "rprint_key_value", data |-> d, title |-> DataTitle],
                    rprint_key_value(d, DataTitle), rprint_key_value_data(d))

RenderList ==
    \E items \in {<<>>, <<(<<"a">>), (<<"b", "c">>)>>} :
        /\ CanCall(MaxRenders)
        /\ DoRender([op |-> "rprint_list", items |-> items, title |-> DataTitle,
                     numbered |-> TRUE],
                    rprint_list(items, DataTitle, TRUE), rprint_list_data(items))

RenderTree ==
    \E d \in TreeMaps :
        /\ CanCall(MaxRenders)
        /\ DoRender([op |-> "rprint_tree", data |-> d, title |-> DataTitle],
                    rprint_tree(d, DataTitle), rprint_tree_data(d))

NextFrame ==
    RenderAny \/ RenderJson \/ RenderTable \/ RenderKeyValue \/ RenderList
    \/ RenderTree

SpecFrame == Init /\ [][NextFrame]_vars

-----------------------------------------------------------------------------
\* One call, from the initial state, of a helper that cuts text: a table of
\* one row with one cell, a tree (of one branch with one item, or of a
\* branch of six items from 60 to 65 characters long and an empty one), a
\* connection item, or a preview.
CallTableCell ==
    \E text \in TextsAround(CellWidth), t \in Titles :
        /\ CanCall(1)
        /\ LET d == PyList(<<PyDict(<<Item(<<"t", "e", "x", "t">>, PyStr(text))>>)>>)
           IN  Do([op |-> "rprint_table", data |-> d, title |-> t,
                   max_rows |-> DefaultMaxRows],
                  rprint_table(d, t, DefaultMaxRows))

CallTree ==
    \E d \in TreeMaps \cup {PyDict(<<Item(<<"k">>, PyList(<<PyStr(text)>>))>>) :
                               text \in TextsAround(TreeItemWidth)}
                        \cup {PyDict(<<Item(<<"l", "o", "n", "g">>,
                                            PyList([i \in 1..(TreeItemLimit + 1) |->
                                                PyStr(TextOfLen(TreeItemWidth + i - 1))])),
                                       Item(<<"n", "o", "n", "e">>, PyList(<<>>))>>)},
       t \in Titles :
        /\ CanCall(1)
        /\ Do([op |-> "rprint_tree", data |-> d, title |-> t], rprint_tree(d, t))

CallConnectionItem ==
    \E index \in {1, 2}, name \in {<<>>, <<"a", "b">>}, score \in {5, 870, 1000},
       preview \in TextsAround(PreviewWidth) :
        /\ CanCall(1)
        /\ Do([op |-> "rprint_connection_item", index |-> index, name |-> name,
               score |-> score, preview |-> preview],
              rprint_connection_item(index, name, score, preview))

NextTrunc == CallTableCell \/ CallTree \/ CallConnectionItem \/ CallPreview

SpecTrunc == Init /\ [][NextTrunc]_vars

-----------------------------------------------------------------------------
(* Running a test script: the interpreter executes the statements of the   *)
(* entered function in order, one frame per function of the script.  An    *)
(* exception ends the run: the scripts have no try statement.              *)

\* The frame on top of the stack, and the statements of its function.
Frame == run.stack[Len(run.stack)]
Body == Scripts[run.script][Frame.fn]

\* python script.py runs main under the __main__ guard; importing the script
\* and calling one of its functions runs that function alone.
RunScript ==
    \E script \in DOMAIN Scripts :
    \E entry \in DOMAIN Scripts[script] :
        /\ run.status = "none"
        /\ CanCall(1)
        /\ run' = [script |-> script, entry |-> entry, status |-> "running",
                   stack |-> <<[fn |-> entry, next |-> 1]>>, entered |-> <<>>]
        /\ UNCHANGED <<out, log, pc, asking, typed, timer>>

\* A statement that calls a helper: the name is looked up in the script's
\* globals, then the helper runs.
StepCall ==
    /\ run.status = "running"
    /\ Frame.next <= Len(Body)
    /\ Body[Frame.next].fn \notin DOMAIN Scripts[run.script] \cup {"time.sleep"}
    /\ \E stmt \in {Body[Frame.next]} :
       \E e \in {IF stmt.fn \in ScriptGlobals(run.script)
                 THEN CallFunction(stmt.fn, stmt.args)
                 ELSE Raise("NameError")} :
           /\ out' = out \o e.writes
           /\ log' = Append(log, [call |-> [op |-> stmt.fn, args |-> stmt.args],
                                  calls |-> e.calls, writes |-> e.writes,
                                  raised |-> e.raised, ret |-> "None"])
           /\ run' = IF e.raised = "none"
                     THEN [run EXCEPT !.stack[Len(run.stack)].next = @ + 1]
                     ELSE [run EXCEPT !.status = "failed", !.stack = <<>>]
    /\ UNCHANGED <<pc, asking, typed, timer>>

\* A statement that calls a function of the script.
StepEnter ==
    /\ run.status = "running"
    /\ Frame.next <= Len(Body)
    /\ Body[Frame.next].fn \in DOMAIN Scripts[run.script]
    /\ \E fn \in {Body[Frame.next].fn} :
           run' = IF fn \in ScriptGlobals(run.script)
                  THEN [run EXCEPT !.stack = Append(@, [fn |-> fn, next |-> 1]),
                                   !.entered = Append(@, fn)]
                  ELSE [run EXCEPT !.status = "failed", !.stack = <<>>]
    /\ UNCHANGED <<out, log, pc, asking, typed, timer>>

\* time.sleep(0.5): time is bound by the script's import; nothing is written.
StepSleep ==
    /\ run.status = "running"
    /\ Frame.next <= Len(Body)
    /\ Body[Frame.next].fn = "time.sleep"
    /\ run' = IF "time" \in ScriptGlobals(run.script)
              THEN [run EXCEPT !.stack[Len(run.stack)].next = @ + 1]
              ELSE [run EXCEPT !.status = "failed", !.stack = <<>>]
    /\ UNCHANGED <<out, log, pc, asking, typed, timer>>

\* The end of a function: its frame is popped and the caller goes on; the
\* end of the entered function ends the run.
StepReturn ==
    /\ run.status = "running"
    /\ Frame.next > Len(Body)
    /\ \E rest \in {SubSeq(run.stack, 1, Len(run.stack) - 1)} :
           run' = IF rest = <<>>
                  THEN [run EXCEPT !.status = "exited", !.stack = <<>>]
                  ELSE [run EXCEPT !.stack = [rest EXCEPT ![Len(rest)].next = @ + 1]]
    /\ UNCHANGED <<out, log, pc, asking, typed, timer>>

NextScripts == RunScript \/ StepCall \/ StepEnter \/ StepSleep \/ StepReturn

\* The interpreter runs the statements one after the other without waiting
\* for anything but the sleeps, which end: a run that can take a step takes
\* it.
SpecScripts ==
    /\ Init
    /\ [][NextScripts]_vars
    /\ WF_vars(StepCall \/ StepEnter \/ StepSleep \/ StepReturn)

-----------------------------------------------------------------------------
(* Progress: a caller reports progress against one total, once or twice.   *)
(* The totals are the small ones, with current from 0 to one past the      *)
(* total, and two large ones.  A countdown, when the caller starts one, is *)
(* the caller's first call; it runs one statement at a time.               *)

CallProgressBar ==
    \E run_ \in UNION {{<<IntStr(c), IntStr(t)>> : c \in 0..(t + 1)} : t \in 0..MaxTotal}
                \cup {<<Chars(c), Chars("100000000000000000")>> :
                         c \in {"1", "99999999999999999", "100000000000000000"}}
                \cup {<<Chars(c), Chars("1125899906842623")>> :
                         c \in {"394064967394918", "394064967394919"}} :
        /\ CanCall(2)
        /\ Called /\ Last.call.op = "rprint_progress_bar" => run_[2] = Last.call.total
        /\ Do([op |-> "rprint_progress_bar", current |-> run_[1], total |-> run_[2]],
              rprint_progress_bar(run_[1], run_[2], Chars("Progress")))

\* rprint_countdown(seconds, message) is entered: the for statement builds
\* range(seconds, 0, -1), which is empty for seconds <= 0.
CallCountdown ==
    \E seconds \in (0 - 1)..MaxSeconds, message \in CountdownMessages :
        /\ CanCall(1)
        /\ pc' = "countdown"
        /\ timer' = [rest |-> [k \in 1..Max(seconds, 0) |-> seconds + 1 - k],
                     at |-> "for"]
        /\ log' = Append(log, [call |-> [op |-> "rprint_countdown", seconds |-> seconds,
                                        message |-> message],
                              calls |-> <<"rprint_countdown">>, writes |-> <<>>,
                              raised |-> "none", ret |-> "None"])
        /\ UNCHANGED <<out, asking, typed, run>>

\* A loop that writes its tick line and takes the next value at once.
CountdownTick_without_sleep ==
    /\ pc = "countdown"
    /\ timer.at = "for"
    /\ timer.rest # <<>>
    /\ \E line \in {TickLine(Last.call.message, Head(timer.rest))} :
           /\ out' = Append(out, line)
           /\ log' = [log EXCEPT ![Len(log)].writes = Append(@, line)]
    /\ timer' = [rest |-> Tail(timer.rest), at |-> "for"]
    /\ UNCHANGED <<pc, asking, typed, run>>

\* The loop takes its next value i and writes the tick line, ended by a
\* carriage return.
CountdownTick ==
    /\ pc = "countdown"
    /\ timer.at = "for"
    /\ timer.rest # <<>>
    /\ \E line \in {TickLine(Last.call.message, Head(timer.rest))} :
           /\ out' = Append(out, line)
           /\ log' = [log EXCEPT ![Len(log)].writes = Append(@, line)]
    /\ timer' = [rest |-> Tail(timer.rest), at |-> "sleep"]
    /\ UNCHANGED <<pc, asking, typed, run>>

\* time.sleep(1) returns after its second; the loop goes on.
CountdownSleep ==
    /\ pc = "countdown"
    /\ timer.at = "sleep"
    /\ log' = [log EXCEPT ![Len(log)].calls = Append(@, "time.sleep")]
    /\ timer' = [timer EXCEPT !.at = "for"]
    /\ UNCHANGED <<out, pc, asking, typed, run>>

\* The range is exhausted: the Done! line is written and the call returns.
CountdownDone ==
    /\ pc = "countdown"
    /\ timer.at = "for"
    /\ timer.rest = <<>>
    /\ \E line \in {DoneLine(Last.call.message)} :
           /\ out' = Append(out, line)
           /\ log' = [log EXCEPT ![Len(log)].writes = Append(@, line)]
    /\ pc' = "idle"
    /\ timer' = [rest |-> <<>>, at |-> "none"]
    /\ UNCHANGED <<asking, typed, run>>

NextProgress ==
    CallProgressBar \/ CallCountdown \/ CountdownTick \/ CountdownSleep \/ CountdownDone

\* The countdown is a blocking loop of the one thread: nothing cancels it,
\* each write returns and each sleep ends after its second, so a countdown
\* that can take a step takes it.
SpecProgress ==
    /\ Init
    /\ [][NextProgress]_vars
    /\ WF_vars(CountdownTick \/ CountdownSleep \/ CountdownDone)

-----------------------------------------------------------------------------
(* Vocabulary of the properties *)

\* The first n characters of s (all of s when it is shorter), 0 <= n.
FirstChars(s, n) == [i \in 1..(IF n < Len(s) THEN n ELSE Len(s)) |-> s[i]]

\* Text t occurs in token sequence s as a contiguous run.
Contains(s, t) ==
    \E i \in 0..(Len(s) - Len(t)) : SubSeq(s, i + 1, i + Len(t)) = t

\* The numbers written in text s, in order: its maximal runs of digits.
\* cur is the number read so far at position i, or -1 outside a number.
RECURSIVE ScanNumbers(_, _, _, _)
ScanNumbers(s, i, cur, acc) ==
    IF i > Len(s) THEN (IF cur >= 0 THEN Append(acc, cur) ELSE acc)
    ELSE IF IsDigit(s[i])
         THEN ScanNumbers(s, i + 1, (IF cur >= 0 THEN 10 * cur ELSE 0) + DigitVal(s[i]), acc)
         ELSE ScanNumbers(s, i + 1, -1, IF cur >= 0 THEN Append(acc, cur) ELSE acc)
NumbersIn(s) == ScanNumbers(s, 1, -1, <<>>)

\* The category helpers, by function name.
CategoryHelpers == {level_map[l] : l \in Levels}

\* The colour tag and the glyph a category helper puts before its message.
StyleOf(helper) == SubSeq(CallHelper(helper, <<>>).writes[1].arg, 1, 2)

\* Write w is a message in the style of the category helper.
InStyleOf(w, helper) ==
    w.kind = "text" /\ Len(w.arg) >= 2 /\ SubSeq(w.arg, 1, 2) = StyleOf(helper)

\* The table the last call drew, if it drew one.
DrewTable == Len(Last.writes) = 1 /\ Last.writes[1].kind = "table"
\* The rows it rendered, and the numbers its caption states (none without a
\* caption or without a table).
RenderedRows == IF DrewTable THEN Last.writes[1].rows ELSE <<>>
HasCaption == DrewTable /\ Last.writes[1].caption # PyNone
CaptionNumbers == IF HasCaption THEN NumbersIn(Last.writes[1].caption.chars) ELSE <<>>

\* The cells of input row under the columns of the first row.
CellsOf(row, keys) ==
    [c \in 1..Len(keys) |->
        FirstChars(IF \E i \in 1..Len(row.items) : row.items[i].k = keys[c]
                   THEN Str(DictGet(row, keys[c], PyNone))
                   ELSE <<>>,
                   CellWidth)]

\* The rendered rows are the first n rows of the data, in input order.
RendersFirst(n) ==
    LET data == Last.call.data.items
    IN  /\ Len(RenderedRows) = n
        /\ \A r \in 1..n : RenderedRows[r] = CellsOf(data[r], Keys(data[1]))

\* The last call was rprint_display_any.
DisplayedAny == Called /\ Last.call.op = "rprint_display_any"

\* The payload is a list of dicts whose first element is a non-empty dict.
ListOfDictsPayload ==
    /\ Last.call.data.type = "list"
    /\ PyLen(Last.call.data) > 0
    /\ \A i \in 1..PyLen(Last.call.data) : Last.call.data.items[i].type = "dict"
    /\ PyLen(Last.call.data.items[1]) > 0

\* The column headers of the table the last call drew.
Headers ==
    [c \in 1..Len(Last.writes[1].columns) |-> Last.writes[1].columns[c].header]

\* The last call handed a str that does not parse as JSON to rprint_json:
\* directly, or through rprint_display_any, which does so for a str that
\* starts with "{" once stripped.
UnparsableToJson ==
    /\ Called
    /\ Last.call.op \in {"rprint_json", "rprint_display_any"}
    /\ Last.call.data.type = "str"
    /\ ~json_loads(Last.call.data.chars).ok
    /\ Last.call.op = "rprint_display_any"
           => Has(Strip(Last.call.data.chars), 1, <<"{">>)

\* The line is one of the choices of the last rprint_ask_choice call.
IsChoice(line) ==
    \E i \in 1..Len(Last.call.choices) : Last.call.choices[i] = line

-----------------------------------------------------------------------------
(* Properties of rprint_display_any, rprint_table and rprint_json (SpecData) *)

\* C1: a dict payload goes to rprint_key_value when it has fewer than 10
\* items and to rprint_json when it has 10 or more, and to nothing else.
C1_DictDispatch ==
    (DisplayedAny /\ Last.call.data.type = "dict")
    => /\ PyLen(Last.call.data) < 10
            => Last.calls = <<"rprint_display_any", "rprint_key_value">>
       /\ PyLen(Last.call.data) >= 10
            => Last.calls = <<"rprint_display_any", "rprint_json">>

\* C1 witness: a dict of exactly 10 items was sent to rprint_json and drawn
\* as a JSON panel.
C1_Witness ==
    /\ DisplayedAny
    /\ Last.call.data.type = "dict"
    /\ PyLen(Last.call.data) = 10
    /\ Last.calls = <<"rprint_display_any", "rprint_json">>
    /\ Len(Last.writes) = 1
    /\ Last.writes[1].body.kind = "json"

\* C2 (as claimed): a list of dicts with a non-empty first element is drawn
\* as a table whose columns are the keys of the first element, in key order.
C2_ColumnsAreKeys ==
    (DisplayedAny /\ ListOfDictsPayload)
    => /\ Last.calls = <<"rprint_display_any", "rprint_table">>
       /\ DrewTable
       /\ Headers = Keys(Last.call.data.items[1])

\* C2 (amended): ... whose column headers are the keys of the first element,
\* each with "_" replaced by " " and title-cased, in key order.
C2_ColumnsAreFormattedKeys ==
    (DisplayedAny /\ ListOfDictsPayload)
    => /\ Last.calls = <<"rprint_display_any", "rprint_table">>
       /\ DrewTable
       /\ Len(Headers) = PyLen(Last.call.data.items[1])
       /\ \A c \in 1..Len(Headers) :
              Headers[c] = Title(Replace(Last.call.data.items[1].items[c].k, "_", " "))

\* C2 witness: a table was drawn for a list whose first row has the keys
\* "name" and "top_k", under the headers "Name" and "Top K".
C2_Witness ==
    /\ DisplayedAny
    /\ ListOfDictsPayload
    /\ DrewTable
    /\ Keys(Last.call.data.items[1]) =
           <<(<<"n", "a", "m", "e">>), (<<"t", "o", "p", "_", "k">>)>>
    /\ Headers = <<(<<"N", "a", "m", "e">>), (<<"T", "o", "p", " ", "K">>)>>

\* C3 (as claimed): with more rows than the cap, exactly the first max_rows
\* rows are rendered and the caption states the number of hidden rows,
\* len(data) - max_rows; otherwise all rows are rendered with no caption.
C3_CaptionStatesHidden ==
    (Called /\ Last.call.op = "rprint_table")
    => LET n   == PyLen(Last.call.data)
           cap == Last.call.max_rows
       IN  /\ Last.raised = "none"
           /\ n > cap => /\ RendersFirst(cap)
                         /\ HasCaption
                         /\ \E k \in 1..Len(CaptionNumbers) : CaptionNumbers[k] = n - cap
           /\ n <= cap => RendersFirst(n) /\ ~HasCaption

\* C3 (amended): with more rows than the cap, exactly the first max_rows
\* rows are rendered and the caption states the number of rows shown
\* (max_rows) and the total (len(data)), in that order; otherwise all rows
\* are rendered with no caption.
C3_RowCap ==
    (Called /\ Last.call.op = "rprint_table")
    => LET n   == PyLen(Last.call.data)
           cap == Last.call.max_rows
       IN  /\ Last.raised = "none"
           /\ n > cap => /\ RendersFirst(cap)
                         /\ HasCaption
                         /\ CaptionNumbers = <<cap, n>>
           /\ n <= cap => RendersFirst(n) /\ ~HasCaption

\* C3 witness: three rows of two columns were given under a cap of two, and
\* two were drawn, with a caption.
C3_Witness ==
    /\ Called
    /\ Last.call.op = "rprint_table"
    /\ PyLen(Last.call.data) = 3
    /\ Last.call.max_rows = 2
    /\ Len(RenderedRows) = 2
    /\ Len(RenderedRows[1]) = 2
    /\ HasCaption

-----------------------------------------------------------------------------
(* Properties of rprint_preview_text (SpecPreview) *)

\* C4: a text longer than max_chars is previewed as exactly its first
\* max_chars characters followed by the ellipsis; a text of at most
\* max_chars characters is previewed unchanged, with no ellipsis.
C4_PreviewTruncation ==
    (Called /\ Last.call.op = "rprint_preview_text")
    => LET text == Last.call.text
           cap  == Last.call.max_chars
       IN  /\ Last.raised = "none"
           /\ Len(Last.writes) = 1
           /\ Len(text) > cap =>
                 Last.writes[1].arg =
                     <<"[dim]">> \o FirstChars(text, cap) \o <<"...", "[/dim]">>
           /\ Len(text) <= cap =>
                 Last.writes[1].arg = <<"[dim]">> \o text \o <<"[/dim]">>

\* C4 witness: a text of three characters was previewed under a cap of two.
C4_Witness ==
    /\ Called
    /\ Last.call.op = "rprint_preview_text"
    /\ Len(Last.call.text) = 3
    /\ Last.call.max_chars = 2
    /\ Len(Last.writes[1].arg) = 5

-----------------------------------------------------------------------------
(* Properties of rprint_display_any, rprint_table and rprint_json (SpecData) *)

\* C5 (as claimed): such a call does not raise and writes one plain-text
\* notice in the error category's style (the colour and glyph of
\* rprint_error), and no JSON panel.
C5_ParseFailureInErrorStyle ==
    UnparsableToJson
    => /\ Last.raised = "none"
       /\ Len(Last.writes) = 1
       /\ InStyleOf(Last.writes[1], "rprint_error")

-----------------------------------------------------------------------------
(* Properties of rprint_ask_choice (SpecAsk) *)

\* C6: rprint_ask_choice has not returned while every line typed so far is
\* outside the choices, and it returns the first typed line that is one of
\* the choices; it raises nothing and returns nothing but a choice.
C6_ReturnsFirstChoice ==
    (Called /\ Last.call.op = "rprint_ask_choice")
    => /\ Last.raised = "none"
       /\ pc = "prompt" => /\ Last.ret = "None"
                           /\ \A i \in 1..Len(typed) : ~IsChoice(typed[i])
       /\ pc = "idle" => /\ typed # <<>>
                         /\ Last.ret = typed[Len(typed)]
                         /\ IsChoice(Last.ret)
                         /\ \A i \in 1..(Len(typed) - 1) : ~IsChoice(typed[i])

\* C6 witness: with the choices a and b the human typed c, was prompted
\* again, typed a, and the call returned a.
C6_Witness ==
    /\ Called
    /\ Last.call.op = "rprint_ask_choice"
    /\ Last.call.choices = <<"a", "b">>
    /\ typed = <<"c", "a">>
    /\ pc = "idle"
    /\ Last.ret = "a"
    /\ Len(Last.writes) = 3

-----------------------------------------------------------------------------
(* Properties of the category helpers and rprint_log (SpecLog) *)

C8_LogTotalOverLevels ==
    (/\ Called
     /\ Last.call.op = "rprint_log"
     /\ Last.call.level \in Levels)
    => /\ Last.raised = "none"
       /\ Last.calls = <<"rprint_log", level_map[Last.call.level]>>
       /\ Last.writes =
              CallHelper(level_map[Last.call.level], Last.call.message).writes

\* C9 (as claimed): rprint_log with a level outside the enumerated set
\* returns normally and writes the message once.
C9_LogUnknownLevelRecovered ==
    (/\ Called
     /\ Last.call.op = "rprint_log"
     /\ Last.call.level \notin Levels)
    => /\ Last.raised = "none"
       /\ Len(Last.writes) = 1
       /\ Contains(Last.writes[1].arg, Last.call.message)

-----------------------------------------------------------------------------
(* Properties of rprint_display_any, rprint_table and rprint_json (SpecData) *)

\* C10: with zero rows, rprint_table and rprint_display_any draw no table,
\* write exactly one message in the warning style and return normally.
C10_EmptyTableWarns ==
    (/\ Called
     /\ Last.call.op \in {"rprint_table", "rprint_display_any"}
     /\ Last.call.data = PyList(<<>>))
    => /\ Last.raised = "none"
       /\ Len(Last.writes) = 1
       /\ InStyleOf(Last.writes[1], "rprint_warning")
       /\ Last.calls[Len(Last.calls)] = "rprint_warning"

\* C10 witnesses: the empty list reached the table path through
\* rprint_display_any, and the warning was written.
C10_Witness ==
    /\ DisplayedAny
    /\ Last.call.data = PyList(<<>>)
    /\ Last.calls = <<"rprint_display_any", "rprint_table", "rprint_warning">>
    /\ Len(out) = 1

-----------------------------------------------------------------------------
(* Properties of rprint_display_any as a whole (SpecData) *)

\* C11 (as claimed): every call of rprint_display_any, whatever the payload
\* and the path taken, has written to the output stream exactly once when it
\* ends, and has read no line from the input.
C11_WritesExactlyOnce ==
    DisplayedAny
    => /\ Len(Last.writes) = 1
       /\ pc = "idle"
       /\ typed = <<>>


\* The payload of the last call is a str that json.loads parses.
JsonStrPayload ==
    /\ Last.call.data.type = "str"
    /\ json_loads(Last.call.data.chars).ok

\* What json.loads makes of the payload of the last call.
ParsedPayload == json_loads(Last.call.data.chars).val

\* C12 (as claimed): a str payload that parses as a JSON object is displayed
\* like a dict payload: by rprint_key_value when the parsed object has fewer
\* than 10 keys, by rprint_json when it has 10 or more.
C12_ParsedByCardinality ==
    (DisplayedAny /\ JsonStrPayload /\ ParsedPayload.type = "dict")
    => /\ PyLen(ParsedPayload) < 10
            => Last.calls = <<"rprint_display_any", "rprint_key_value">>
       /\ PyLen(ParsedPayload) >= 10
            => Last.calls = <<"rprint_display_any", "rprint_json">>

\* C12 (amended): a str payload that parses as JSON and starts with "{" once
\* stripped of whitespace goes to rprint_json, which draws the parsed value
\* as one JSON panel whatever its number of keys; a str that parses as JSON
\* but does not start with "{" gets the fallback line.
C12_JsonStringToJsonPanel ==
    (DisplayedAny /\ JsonStrPayload)
    => /\ Last.raised = "none"
       /\ Len(Last.writes) = 1
       /\ IF Has(Strip(Last.call.data.chars), 1, <<"{">>)
          THEN /\ Last.calls = <<"rprint_display_any", "rprint_json">>
               /\ Last.writes[1].kind = "panel"
               /\ Last.writes[1].body = [kind |-> "json", data |-> ParsedPayload]
          ELSE /\ Last.calls = <<"rprint_display_any", "rprint_info">>
               /\ Last.writes[1].kind = "text"

\* C12 witness: the str {"k_0": 0} was parsed to a dict of one key and drawn
\* as a JSON panel.
C12_Witness ==
    /\ DisplayedAny
    /\ JsonStrPayload
    /\ ParsedPayload.type = "dict"
    /\ PyLen(ParsedPayload) = 1
    /\ Last.calls = <<"rprint_display_any", "rprint_json">>
    /\ Len(Last.writes) = 1
    /\ Last.writes[1].body.kind = "json"

\* The runs of s between the tokens sep, in order.
RECURSIVE SplitOn(_, _)
SplitOn(s, sep) ==
    IF \A i \in 1..Len(s) : s[i] # sep THEN <<s>>
    ELSE LET i == CHOOSE i \in 1..Len(s) :
                      s[i] = sep /\ \A j \in 1..(i - 1) : s[j] # sep
         IN  <<SubSeq(s, 1, i - 1)>> \o SplitOn(SubSeq(s, i + 1, Len(s)), sep)

\* The entries of the list panel the last call drew: the lines of its body.
ListEntries ==
    IF Len(Last.writes) = 1 /\ Last.writes[1].kind = "panel"
       /\ Last.writes[1].body # <<>>
    THEN SplitOn(Last.writes[1].body, "\n")
    ELSE <<>>

\* Entry i of a list, with its prefix, for the item text.
ListEntry(prefix, text) ==
    <<"[cyan]">> \o prefix \o <<"[/cyan][white]">> \o text \o <<"[/white]">>

\* C13: a list payload that is not a list of dicts goes to rprint_list, which
\* draws one entry per element, in input order, each the element's str();
\* rprint_list prefixes entry i with "i. " (from 1) when numbered and with
\* the bullet when not.
C13_ListEntries ==
    /\ (/\ DisplayedAny
        /\ Last.call.data.type = "list"
        /\ \E i \in 1..PyLen(Last.call.data) : Last.call.data.items[i].type # "dict")
       => /\ Last.raised = "none"
          /\ Last.calls = <<"rprint_display_any", "rprint_list">>
          /\ Len(ListEntries) = PyLen(Last.call.data)
          /\ \A i \in 1..PyLen(Last.call.data) :
                 ListEntries[i] =
                     ListEntry(IntStr(i) \o <<".", " ">>, Str(Last.call.data.items[i]))
    /\ (Called /\ Last.call.op = "rprint_list")
       => /\ Last.raised = "none"
          /\ Len(ListEntries) = Len(Last.call.items)
          /\ \A i \in 1..Len(Last.call.items) :
                 ListEntries[i] =
                     ListEntry(IF Last.call.numbered THEN IntStr(i) \o <<".", " ">>
                               ELSE <<"(.)", " ">>,
                               Last.call.items[i])

\* C13 witness: the list ["a", 2] was displayed as the entries "1. a" and
\* "2. 2".
C13_Witness ==
    /\ DisplayedAny
    /\ Last.call.data = PyList(<<PyStr(<<"a">>), PyInt(2)>>)
    /\ Last.calls = <<"rprint_display_any", "rprint_list">>
    /\ Len(ListEntries) = 2
    /\ ListEntries[2] = <<"[cyan]", "2", ".", " ", "[/cyan][white]", "2", "[/white]">>

\* The functions that each implement one display strategy.
Strategies ==
    {"rprint_key_value", "rprint_json", "rprint_table", "rprint_list", "rprint_info"}

\* The payload of the last call matches none of the tests that come before
\* the fallback: it is no dict, no list, and no str that starts with "{"
\* once stripped.
FallbackPayload ==
    /\ Last.call.data.type \notin {"dict", "list"}
    /\ ~(/\ Last.call.data.type = "str"
         /\ Has(Strip(Last.call.data.chars), 1, <<"{">>))

\* C14: a payload that matches none of the earlier cases is written as one
\* line "<title>: <str(payload)>" in the info style; and every payload is
\* handed to exactly one strategy.
C14_FallbackLine ==
    DisplayedAny
    => /\ Cardinality({i \in 1..Len(Last.calls) : Last.calls[i] \in Strategies}) = 1
       /\ FallbackPayload
            => /\ Last.raised = "none"
               /\ Last.calls = <<"rprint_display_any", "rprint_info">>
               /\ Len(Last.writes) = 1
               /\ InStyleOf(Last.writes[1], "rprint_info")
               /\ Last.writes[1].arg =
                      StyleOf("rprint_info") \o <<" ">> \o Last.call.title \o <<": ">>
                      \o Str(Last.call.data) \o <<"[/blue]">>

\* C14 witness: the int 5 under the title "Data" was written as "Data: 5".
C14_Witness ==
    /\ DisplayedAny
    /\ Last.call.data = PyInt(5)
    /\ Last.calls = <<"rprint_display_any", "rprint_info">>
    /\ Contains(Last.writes[1].arg, <<"D", "a", "t", "a", ": ", "5">>)

\* C15 (as claimed): no exception escapes rprint_display_any, whatever dict,
\* list or str it is given, and the call leaves something on the output
\* stream.
C15_NothingPropagates ==
    (DisplayedAny /\ Last.call.data.type \in {"dict", "list", "str"})
    => /\ Last.raised = "none"
       /\ Last.writes # <<>>

-----------------------------------------------------------------------------
(* Properties of the output stream over a sequence of calls (SpecStream) *)

\* What the calls of l wrote, one call after the other.
RECURSIVE WritesOf(_)
WritesOf(l) == IF l = <<>> THEN <<>> ELSE Head(l).writes \o WritesOf(Tail(l))

\* The writes of a call of rprint_pipeline_complete: the titled divider,
\* then the message.
PipelineCompleteOrder(w) ==
    /\ Len(w) = 2
    /\ w[1].kind = "rule"
    /\ Contains(w[1].title, ResearchComplete)
    /\ w[2].kind = "text"
    /\ Contains(w[2].arg, <<"Research pipeline complete!">>)

\* The writes of a call of rprint_artifact_list: the header with the number
\* of artifacts, the thin divider, then one line per artifact, in the order
\* of the dict, with the formatted key and the path.
ArtifactListOrder(w, artifacts) ==
    /\ Len(w) = 2 + PyLen(artifacts)
    /\ Contains(w[1].arg, <<"Generated Artifacts (">> \o IntStr(PyLen(artifacts)))
    /\ w[2] = rprint_thin_divider.writes[1]
    /\ \A i \in 1..PyLen(artifacts) :
           /\ w[2 + i].kind = "text"
           /\ Contains(w[2 + i].arg,
                       Title(Replace(artifacts.items[i].k, "_", " ")) \o <<":">>)
           /\ Contains(w[2 + i].arg, artifacts.items[i].v.chars)

\* The stream holds the writes of the calls so far, in the order of the
\* calls, and each composite helper wrote its parts in its fixed order.
StreamInCallOrder ==
    /\ out = WritesOf(log)
    /\ \A i \in 1..Len(log) :
           /\ log[i].call.op = "rprint_pipeline_complete"
                => PipelineCompleteOrder(log[i].writes)
           /\ log[i].call.op = "rprint_artifact_list"
                => ArtifactListOrder(log[i].writes, log[i].call.artifacts)

\* A step only appends to the stream: what the new call wrote.
StreamAppendOnly ==
    /\ Len(log') = Len(log) + 1
    /\ SubSeq(log', 1, Len(log)) = log
    /\ out' = out \o log'[Len(log')].writes

\* C16: over any sequence of helper calls the output stream only grows, it
\* is the concatenation of what each call wrote, in the order of the calls,
\* and rprint_pipeline_complete (divider, message) and rprint_artifact_list
\* (header, thin divider, one line per artifact in dict order) write their
\* parts contiguously and in that order.
C16_StreamInCallOrder == [](StreamInCallOrder) /\ [][StreamAppendOnly]_vars

\* C16 witness: the three artifacts were listed, a category helper was
\* called, then rprint_pipeline_complete; the stream holds the 5 + 1 + 2
\* writes and ends with the divider and the message.
C16_Witness ==
    /\ Len(log) = 3
    /\ log[1].call.op = "rprint_artifact_list"
    /\ PyLen(log[1].call.artifacts) = 3
    /\ log[2].call.op = "rprint_success"
    /\ log[3].call.op = "rprint_pipeline_complete"
    /\ Len(out) = 8
    /\ out[7].kind = "rule"
    /\ out[8].kind = "text"

-----------------------------------------------------------------------------
(* Properties of the renderers' arguments (SpecFrame) *)

\* The object a call was given to render.
Rendered(c) == IF c.op = "rprint_list" THEN c.items ELSE c.data

-----------------------------------------------------------------------------
(* Properties of the helpers that cut text (SpecTrunc) *)

\* Text cut to the cap, with the ellipsis after it.
CutWithEllipsis(text, cap) == FirstChars(text, cap) \o <<"...">>

\* C18 (as claimed): at each site that cuts text (the cell of rprint_table,
\* the item of rprint_tree, the preview of rprint_connection_item), a text
\* longer than the site's cap is shown as exactly its first cap characters
\* followed by the ellipsis.
C18_EverySiteAddsEllipsis ==
    Called
    => /\ (Last.call.op = "rprint_table" /\ DrewTable)
            => \A r \in 1..Len(RenderedRows) : \A c \in 1..Len(RenderedRows[r]) :
                   LET text == Str(Last.call.data.items[r].items[c].v)
                   IN  Len(text) > 50
                         => RenderedRows[r][c] = CutWithEllipsis(text, 50)
       /\ Last.call.op = "rprint_tree"
            => \A b \in 1..Len(Last.writes[1].branches) :
                   \A j \in 1..Len(Last.writes[1].branches[b].leaves) :
                       LET text == Str(Last.call.data.items[b].v.items[j])
                       IN  Len(text) > 60
                             => Last.writes[1].branches[b].leaves[j] =
                                    <<"[dim]">> \o CutWithEllipsis(text, 60)
                                    \o <<"[/dim]">>
       /\ Last.call.op = "rprint_connection_item"
            => (Len(Last.call.preview) > 80
                  => Last.writes[2].arg =
                         <<"      ", "[dim]">>
                         \o CutWithEllipsis(Last.call.preview, 80) \o <<"[/dim]">>)
-----------------------------------------------------------------------------
(* Properties of the test scripts (SpecScripts) *)

\* python script.py: the run of script that main was entered for.
MainRun(script) == run.script = script /\ run.entry = "main"

\* The line main writes last.
SuccessLine ==
    Markup(<<"[green]", "(v)", " ">>
           \o Chars("All rprint helper functions tested successfully!")
           \o <<"[/green]">>)

IsPrefix(s, t) == Len(s) <= Len(t) /\ s = SubSeq(t, 1, Len(s))

\* The last write of the output stream is the success line.
SuccessLineLast ==
    /\ out # <<>>
    /\ out[Len(out)].kind = "text"
    /\ out[Len(out)] = SuccessLine

\* A run of main has not failed: every name it looked up was bound and
\* every helper returned, and the test functions it entered are the first
\* of the seven, in their order.
RunsInOrder ==
    /\ run.status # "failed"
    /\ \A i \in 1..Len(log) : log[i].raised = "none"
    /\ IsPrefix(run.entered, TestFunctions)

\* A run of main that ended went through all seven test functions and
\* wrote the success line last.
EndedWell ==
    run.status = "exited" => run.entered = TestFunctions /\ SuccessLineLast

\* main of script terminates normally.
TerminatesNormally(script) ==
    /\ [](MainRun(script) => RunsInOrder /\ EndedWell)
    /\ (MainRun(script) ~> run.status = "exited")

\* C19: main() of test_rprint_helper.py terminates normally: every helper it
\* calls is bound and returns without raising, the seven test functions run
\* in the listed order, and the line "All rprint helper functions tested
\* successfully!" is written last.
C19_RprintScriptTerminates == TerminatesNormally("test_rprint_helper")

\* main of test_rprint_helper.py has ended, after the seven test functions
\* and with the success line as the last write.
C19_Witness ==
    /\ MainRun("test_rprint_helper")
    /\ run.status = "exited"
    /\ run.entered = TestFunctions
    /\ \A i \in 1..Len(log) : log[i].raised = "none"
    /\ log[Len(log)].call.op = "rprint_success"
    /\ SuccessLineLast

\* C20: main() of test_display_helper.py terminates normally: every
\* display_* helper it calls is bound by "from ultimate_rprint import *" and
\* returns without raising, all seven test functions run and the success
\* line is written.
C20_DisplayScriptTerminates == TerminatesNormally("test_display_helper")

-----------------------------------------------------------------------------
(* Properties of the cells of rprint_table (SpecData) *)

\* The last call was rprint_table on a list that is not empty, and it wrote
\* its table.
TableDrawn ==
    /\ Called
    /\ Last.call.op = "rprint_table"
    /\ PyLen(Last.call.data) > 0
    /\ Last.raised = "none"
    /\ Len(Last.writes) = 1
    /\ Last.writes[1].kind = "table"

\* Dict row binds key.
Binds(row, key) == \E i \in 1..PyLen(row) : row.items[i].k = key

\* The cell shown for row under key: str of the value the row binds to the
\* key, or of "" when it binds none, cut to the cell width.
CellOf(row, key) ==
    IF Binds(row, key)
    THEN LET i == CHOOSE i \in 1..PyLen(row) : row.items[i].k = key
         IN  SliceTo(Str(row.items[i].v), CellWidth)
    ELSE <<>>

\* C21: in rprint_table the columns are the keys of the first row, and every
\* rendered row has one cell per column: the stringified value the row binds
\* to the column's key cut to at most 50 characters, the empty string when
\* the row lacks the key; a key that only a later row binds has no column
\* and no cell.
C21_CellsFollowFirstRow ==
    TableDrawn =>
        LET data  == Last.call.data
            table == Last.writes[1]
            keys  == Keys(data.items[1])
        IN  /\ Len(table.columns) = Len(keys)
            /\ \A c \in 1..Len(keys) : table.columns[c].header = FormatKey(keys[c])
            /\ Len(table.rows) <= PyLen(data)
            /\ \A r \in 1..Len(table.rows) :
                   /\ Len(table.rows[r]) = Len(table.columns)
                   /\ \A c \in 1..Len(keys) :
                          /\ table.rows[r][c] = CellOf(data.items[r], keys[c])
                          /\ Len(table.rows[r][c]) <= CellWidth

\* A table was drawn of three rows with two columns: one row lacks a key of
\* the first, one binds a key the first does not, and one value was cut.
C21_Witness ==
    /\ TableDrawn
    /\ Len(Last.writes[1].rows) = 3
    /\ Len(Last.writes[1].columns) = 2
    /\ LET data == Last.call.data
           keys == Keys(data.items[1])
       IN  /\ \E r \in 1..3 : \E c \in 1..2 :
                  /\ ~Binds(data.items[r], keys[c])
                  /\ Last.writes[1].rows[r][c] = <<>>
           /\ \E r \in 1..3 : \E i \in 1..PyLen(data.items[r]) :
                  ~Binds(data.items[1], data.items[r].items[i].k)
           /\ \E r \in 1..3 : \E i \in 1..PyLen(data.items[r]) :
                  /\ Len(Str(data.items[r].items[i].v)) > CellWidth
                  /\ \E c \in 1..2 :
                         /\ keys[c] = data.items[r].items[i].k
                         /\ Len(Last.writes[1].rows[r][c]) = CellWidth

-----------------------------------------------------------------------------
(* Properties of rprint_progress_bar and rprint_countdown (SpecProgress) *)

\* Call i was rprint_progress_bar with 0 <= current <= total and total > 0.
BarInRange(i) ==
    /\ log[i].call.op = "rprint_progress_bar"
    /\ BigOfDigits(log[i].call.total) # <<>>
    /\ BigGeq(BigOfDigits(log[i].call.total), BigOfDigits(log[i].call.current))

\* The number of tokens x in the one line call i wrote.
BarCells(i, x) ==
    Cardinality({j \in 1..Len(log[i].writes[1].arg) : log[i].writes[1].arg[j] = x})

\* n = floor(20 * current / total): n * total <= 20 * current < (n + 1) * total
IsFloorOfTwentieths(n, current, total) ==
    LET c   == BigOfDigits(current)
        t   == BigOfDigits(total)
        c20 == After(c, BigMul(c, BigOfInt(BarWidth)))
        low == After(t, BigMul(t, BigOfInt(n)))
    IN  /\ After(c20, After(low, BigGeq(c20, low)))
        /\ ~BigGeq(c20, BigAdd(low, t))

\* C22: for 0 <= current <= total and total > 0, rprint_progress_bar does not
\* raise and its bar has exactly 20 cells, floor(20 * current / total) of
\* them filled and the rest empty; of two calls with the same total, the one
\* with the larger current has no fewer filled cells.
C22_BarIsFloorOfTwentieths ==
    /\ \A i \in 1..Len(log) :
           BarInRange(i) =>
               /\ log[i].raised = "none"
               /\ Len(log[i].writes) = 1
               /\ BarCells(i, "(#)") + BarCells(i, "(-)") = BarWidth
               /\ IsFloorOfTwentieths(BarCells(i, "(#)"), log[i].call.current,
                                      log[i].call.total)
    /\ \A i, j \in 1..Len(log) :
           /\ BarInRange(i)
           /\ BarInRange(j)
           /\ log[i].call.total = log[j].call.total
           /\ BigGeq(BigOfDigits(log[j].call.current), BigOfDigits(log[i].call.current))
           => BarCells(i, "(#)") <= BarCells(j, "(#)")

\* Call i is a countdown, and it has returned.
IsCountdown(i) == log[i].call.op = "rprint_countdown"
CountdownReturned(i) == IsCountdown(i) /\ ~(pc = "countdown" /\ i = Len(log))

\* The tick lines call i has written, and the sleeps it has finished.
TicksOf(i) == {k \in 1..Len(log[i].writes) : log[i].writes[k].arg[1] = "[yellow]"}
SleepsOf(i) == {k \in 1..Len(log[i].calls) : log[i].calls[k] = "time.sleep"}

\* What countdown i has written so far is right: its k-th write is the tick
\* showing seconds + 1 - k, there are at most `seconds` of them, and each
\* but a tick just written has been followed by one sleep.
CountdownSoFar(i) ==
    LET c == log[i].call
        w == log[i].writes
    IN  /\ log[i].raised = "none"
        /\ \A k \in TicksOf(i) :
               /\ k <= c.seconds
               /\ w[k] = TickLine(c.message, c.seconds + 1 - k)
               /\ w[k].end = "\r"
        /\ \A k \in 1..Len(w) : k \notin TicksOf(i) => k = Len(w) /\ CountdownReturned(i)
        /\ Cardinality(SleepsOf(i)) =
               Cardinality(TicksOf(i))
               - (IF ~CountdownReturned(i) /\ timer.at = "sleep" THEN 1 ELSE 0)

\* What a returned countdown i has written: `seconds` ticks, none for
\* seconds <= 0, and then the Done! line, once and last.
CountdownWhole(i) ==
    LET c == log[i].call
        w == log[i].writes
    IN  /\ Len(w) = Max(c.seconds, 0) + 1
        /\ TicksOf(i) = 1..Max(c.seconds, 0)
        /\ w[Len(w)] = DoneLine(c.message)
        /\ \A k \in 1..Len(w) : w[k] = DoneLine(c.message) => k = Len(w)
        /\ Cardinality(SleepsOf(i)) = Max(c.seconds, 0)

\* C23: rprint_countdown(seconds, message) always returns; for seconds >= 1
\* it writes exactly `seconds` tick lines showing seconds, seconds - 1, ...,
\* 1 in that order, sleeps once after each, and then writes the Done! line
\* once, as its last write; for seconds <= 0 it writes only the Done! line.
C23_CountdownTerminates ==
    /\ [](\A i \in 1..Len(log) :
             IsCountdown(i) =>
                 /\ CountdownSoFar(i)
                 /\ CountdownReturned(i) => CountdownWhole(i))
    /\ (pc = "countdown") ~> (pc = "idle")

\* A countdown of two seconds has returned.
C23_Witness ==
    \E i \in 1..Len(log) :
        /\ CountdownReturned(i)
        /\ log[i].call.seconds = 2
        /\ Len(log[i].writes) = 3
        /\ Len(SelectSeq(log[i].calls, LAMBDA f : f = "time.sleep")) = 2

-----------------------------------------------------------------------------
(* Properties of the branches of rprint_tree (SpecTrunc) *)

\* The leaf that shows item: its text, or the first 60 characters of it
\* and "..." when it is longer than 60.
LeafOf(item) ==
    <<"[dim]">>
    \o (IF Len(Str(item)) <= 60 THEN Str(item)
        ELSE FirstChars(Str(item), 60) \o <<"...">>)
    \o <<"[/dim]">>

\* C24: rprint_tree draws exactly one branch per key of the mapping, in key
\* order; the label of a branch reports len(items), the branch shows the
\* first 5 items at most, and each item shown is its text unchanged when at
\* most 60 characters long, else its first 60 characters followed by "...".
C24_BranchPerKey ==
    Called /\ Last.call.op = "rprint_tree"
    => /\ Last.raised = "none"
       /\ Len(Last.writes) = 1
       /\ Len(Last.writes[1].branches) = Len(Last.call.data.items)
       /\ \A b \in 1..Len(Last.call.data.items) :
              LET key    == Last.call.data.items[b].k
                  items  == Last.call.data.items[b].v.items
                  branch == Last.writes[1].branches[b]
              IN  /\ branch.label = <<"[green]">> \o key \o <<"[/green]", " (">>
                                     \o IntStr(Len(items)) \o <<" items)">>
                  /\ Len(branch.leaves) = Min(Len(items), 5)
                  /\ \A j \in 1..Len(branch.leaves) :
                         branch.leaves[j] = LeafOf(items[j])

\* A tree of two keys was drawn: the first with six items, of which five are
\* shown, one whole and the others cut; the second with none.
C24_Witness ==
    /\ Called
    /\ Last.call.op = "rprint_tree"
    /\ Len(Last.writes[1].branches) = 2
    /\ Len(Last.call.data.items[1].v.items) = 6
    /\ Len(Last.writes[1].branches[1].leaves) = 5
    /\ Len(Last.writes[1].branches[1].leaves[1]) = 62
    /\ Len(Last.writes[1].branches[1].leaves[2]) = 63
    /\ Len(Str(Last.call.data.items[1].v.items[2])) = 61
    /\ Last.writes[1].branches[2].leaves = <<>>

====
